---- MODULE Spec2Model ----
(***************************************************************************)
(* Routing, interception and task allocation of the capture-the-flag       *)
(* agents: the weighted A* router of src/pathfinding_adapter.py, the       *)
(* defence planner and per-tick allocator of src/server.py, the persistent *)
(* assignment maps of src/pick_test.py and the state-machine allocator of  *)
(* src/backend/defensive_ai_outline.py.                                    *)
(*                                                                         *)
(* Cells are pairs <<x, y>>.  Weights are kept as integers, four times the *)
(* float of the source (0.0, 0.25, 0.5, 0.75, 1.0 -> 0..4), which is exact *)
(* for every value the source produces.                                    *)
(***************************************************************************)
EXTENDS Integers, Sequences, FiniteSets, TLC

\* ------------------------------------------------------------------ bounds
\* the grid of the router's worlds
GridW == 4
GridH == 2
\* at most this many wall cells in a router world
MaxWalls == 2

\* ------------------------------------------------------------ grid helpers
\* every world record w carries its own width and height (world.width,
\* world.height)
Cells(w) == (0 .. w.width - 1) \X (0 .. w.height - 1)

InBounds(w, c) == c[1] >= 0 /\ c[1] < w.width /\ c[2] >= 0 /\ c[2] < w.height

\* up, down, left, right, in the order every search of the source uses
\* no step to the left
directions_noleft == << <<0, -1>>, <<0, 1>>, <<1, 0>>, <<1, 0>> >>

directions == << <<0, -1>>, <<0, 1>>, <<-1, 0>>, <<1, 0>> >>

Step(c, i) == <<c[1] + directions[i][1], c[2] + directions[i][2]>>

Abs(n) == IF n < 0 THEN -n ELSE n

heuristic(a, b) == Abs(a[1] - b[1]) + Abs(a[2] - b[2])

Min2(a, b) == IF a < b THEN a ELSE b

SetMin(S) == CHOOSE m \in S : \A n \in S : m <= n

Rev(s) == [i \in 1 .. Len(s) |-> s[Len(s) + 1 - i]]

Range(s) == {s[i] : i \in 1 .. Len(s)}

\* ------------------------------------------- src/pathfinding_adapter.py
\* the cells the bounded BFS of build_weight_map reaches from an opponent
\* within k hops; obstacles stop the expansion, the opponent's own cell is
\* always at distance 0
RECURSIVE Ring(_, _, _, _)
Ring(w, e, blocked, k) ==
    IF k = 0 THEN {e}
    ELSE LET prev == Ring(w, e, blocked, k - 1)
         IN prev \cup {n \in Cells(w) : n \notin blocked
                                     /\ \E c \in prev : \E i \in 1 .. 4 : Step(c, i) = n}

\* hop distance recorded in distance_map, 4 when the cell is not reached
BfsRadius == 3

EnemyDist(w, e, blocked, c) ==
    IF c \in Ring(w, e, blocked, 0) THEN 0
    ELSE IF c \in Ring(w, e, blocked, 1) THEN 1
    ELSE IF c \in Ring(w, e, blocked, 2) THEN 2
    ELSE IF c \in Ring(w, e, blocked, BfsRadius) THEN 3
    ELSE 4

\* weight_map of build_weight_map, times four
build_weight_map(w, extra) ==
    LET blocked == w.walls \cup extra
        base == [c \in Cells(w) |->
                    IF c \in w.my_team_target \cup w.opponent_team_target THEN 4
                    ELSE IF c \in blocked THEN 0
                    ELSE 4]
        opps == {e \in w.opponents : InBounds(w, e)}
    IN [c \in Cells(w) |->
            LET ds == {EnemyDist(w, e, blocked, c) : e \in opps}
            IN IF ds = {} THEN base[c] ELSE Min2(base[c], SetMin(ds))]

\* heapq order on the tuples (f, g, x, y)
TupleLess(a, b) ==
    \/ a[1] < b[1]
    \/ a[1] = b[1] /\ a[2] < b[2]
    \/ a[1] = b[1] /\ a[2] = b[2] /\ a[3] < b[3]
    \/ a[1] = b[1] /\ a[2] = b[2] /\ a[3] = b[3] /\ a[4] < b[4]

\* the largest tuple instead of the smallest
HeapPop_largest(open) == CHOOSE t \in open : \A u \in open : u = t \/ TupleLess(u, t)

HeapPop(open) == CHOOSE t \in open : \A u \in open : u = t \/ TupleLess(t, u)

RECURSIVE Backtrack(_, _)
Backtrack(came_from, current) ==
    IF current \in DOMAIN came_from
    THEN <<current>> \o Backtrack(came_from, came_from[current])
    ELSE <<>>

RECURSIVE AStarLoop(_, _, _, _, _, _, _, _)
AStarLoop(w, wm, srcXY, dstXY, open_set, g_score, came_from, closed_set) ==
    IF open_set = {} THEN <<>>
    ELSE
      LET top == HeapPop(open_set)
          current == <<top[3], top[4]>>
          rest == open_set \ {top}
      IN IF current \in closed_set
         THEN AStarLoop(w, wm, srcXY, dstXY, rest, g_score, came_from, closed_set)
         ELSE IF current = dstXY
         THEN Rev(Backtrack(came_from, current) \o <<srcXY>>)
         ELSE
           LET closed2 == closed_set \cup {current}
               tentative(n) == g_score[current] + (4 - wm[n])
               better == {n \in {Step(current, i) : i \in 1 .. 4} :
                             /\ InBounds(w, n)
                             /\ n \notin closed2
                             /\ wm[n] # 0
                             /\ (n \notin DOMAIN g_score \/ tentative(n) < g_score[n])}
               g2 == [n \in DOMAIN g_score \cup better |->
                         IF n \in better THEN tentative(n) ELSE g_score[n]]
               came2 == [n \in DOMAIN came_from \cup better |->
                            IF n \in better THEN current ELSE came_from[n]]
               pushed == {<<tentative(n) + 4 * heuristic(n, dstXY), tentative(n), n[1], n[2]>> :
                             n \in better}
           IN AStarLoop(w, wm, srcXY, dstXY, rest \cup pushed, g2, came2, closed2)

improved_route(w, srcXY, dstXY, extra) ==
    IF ~InBounds(w, srcXY) THEN <<>>
    ELSE IF ~InBounds(w, dstXY) THEN <<>>
    ELSE IF srcXY = dstXY THEN <<srcXY>>
    ELSE
      LET wm == build_weight_map(w, extra)
      IN IF wm[srcXY] = 0 THEN <<>>
         ELSE IF wm[dstXY] = 0 THEN <<>>
         ELSE AStarLoop(w, wm, srcXY, dstXY, {<<0, 0, srcXY[1], srcXY[2]>>},
                        (srcXY :> 0), << >>, {})

\* ------------------------------------------------- the world collaborator
\* (GameMap; src/backend/training/train_direct.py keeps a copy of its
\* primitives in SimpleGameSimulator and SimpleWorldWrapper)

\* middle_line = width / 2 is kept doubled, so that odd widths stay integers
MiddleLine2(w) == w.width

is_on_left(w, pos) == 2 * pos[1] < MiddleLine2(w)

\* the neighbours route_to appends for the path it pops, in direction order
RouteExpand(w, blocked, seen, p) ==
    LET curr == p[Len(p)]
        ok(i) == LET nxt == Step(curr, i)
                 IN InBounds(w, nxt) /\ nxt \notin blocked /\ nxt \notin seen
        idx == SelectSeq(<<1, 2, 3, 4>>, ok)
    IN [k \in 1 .. Len(idx) |-> Append(p, Step(curr, idx[k]))]

RECURSIVE RouteLoop(_, _, _, _, _)
RouteLoop(w, dstXY, blocked, queue, seen) ==
    IF queue = <<>> THEN <<>>
    ELSE LET p == Head(queue)
         IN IF p[Len(p)] = dstXY THEN p
            ELSE LET more == RouteExpand(w, blocked, seen, p)
                 IN RouteLoop(w, dstXY, blocked, Tail(queue) \o more,
                              seen \cup {more[k][Len(more[k])] : k \in 1 .. Len(more)})

\* breadth-first search over the cells that are neither walls nor extras
route_to(w, srcXY, dstXY, extra) ==
    RouteLoop(w, dstXY, w.walls \cup extra, <<<<srcXY>>>>, {srcXY})

\* GameMap.get_direction: the direction of one step
get_direction(a, b) ==
    IF b[2] < a[2] THEN "up"
    ELSE IF b[2] > a[2] THEN "down"
    ELSE IF b[1] < a[1] THEN "left"
    ELSE IF b[1] > a[1] THEN "right"
    ELSE ""

\* the cell a direction command leads to
Moved(c, d) ==
    CASE d = "up" -> <<c[1], c[2] - 1>>
      [] d = "down" -> <<c[1], c[2] + 1>>
      [] d = "left" -> <<c[1] - 1, c[2]>>
      [] d = "right" -> <<c[1] + 1, c[2]>>
      [] OTHER -> c

\* world.list_players(mine, inPrison=False, hasFlag=None) and friends, over
\* the sequences w.mine and w.theirs of player records
Pos(p) == p.pos

active(ps) == SelectSeq(ps, LAMBDA p : ~p.inPrison)

imprisoned(ps) == SelectSeq(ps, LAMBDA p : p.inPrison)

\* ---------------------------------------------------------- src/server.py
\* boundary_line = middle_line - 1 for team L, middle_line + 1 for team R
is_in_enemy_territory(w, team, position) ==
    IF team = "L" THEN ~(2 * position[1] < MiddleLine2(w) - 2)
    ELSE IF team = "R" THEN 2 * position[1] < MiddleLine2(w) + 2
    ELSE FALSE

is_in_my_territory(w, team, position) == ~is_in_enemy_territory(w, team, position)

\* my_side_is_left of defence_route and build_defence_weight_map
my_side_is_left(w) ==
    IF w.my_targets # <<>> THEN is_on_left(w, w.my_targets[1]) ELSE TRUE

InMySide(w, c) == is_on_left(w, c) = my_side_is_left(w)

\* improved_route of server.py: the early returns, then the unconditional
\* "return []" that follows the last check, so that route_to is never called
srv_improved_route(w, srcXY, dstXY) ==
    IF ~InBounds(w, srcXY) THEN <<>>
    ELSE IF ~InBounds(w, dstXY) THEN <<>>
    ELSE IF srcXY = dstXY THEN <<srcXY>>
    ELSE <<>>

defence_route(w, srcXY, dstXY) ==
    IF ~InBounds(w, srcXY) THEN <<>>
    ELSE IF ~InBounds(w, dstXY) THEN <<>>
    ELSE IF srcXY = dstXY THEN <<srcXY>>
    ELSE IF srcXY \in w.walls THEN <<>>
    ELSE IF dstXY \in w.walls THEN <<>>
    ELSE
      LET inside == IF InMySide(w, srcXY) /\ InMySide(w, dstXY)
                    THEN route_to(w, srcXY, dstXY, {c \in Cells(w) : ~InMySide(w, c)})
                    ELSE <<>>
      IN IF inside # <<>> THEN inside ELSE route_to(w, srcXY, dstXY, {})

\* body applied to the value of e, which is computed once
Let(e, body(_)) == CHOOSE r \in {body(v) : v \in {e}} : TRUE

\* the first element of s, in iteration order, with the smallest key among
\* those that qualify ("if key < best" keeps the earlier of two equals);
\* <<>> is None, <<e>> is the element e
FirstMin(s, qualifies(_), key(_)) ==
    Let({<<i, key(s[i])>> : i \in {j \in 1 .. Len(s) : qualifies(s[j])}},
        LAMBDA K :
            IF K = {} THEN <<>>
            ELSE LET b == CHOOSE m \in K : \A n \in K :
                              m[2] < n[2] \/ (m[2] = n[2] /\ m[1] <= n[1])
                 IN <<s[b[1]]>>)

\* both return <<>> for None and <<cell>> for a cell
find_closest_my_territory_on_path(w, p, team, player_pos) ==
    FirstMin(p, LAMBDA c : is_in_my_territory(w, team, c),
             LAMBDA c : heuristic(c, player_pos))

find_intersection_with_middle_line(w, p) ==
    FirstMin(p, LAMBDA c : TRUE, LAMBDA c : Abs(2 * c[1] - MiddleLine2(w)))

\* f with key k set to v (a Python dict assignment), and with k deleted
Put(f, k, v) == (k :> v) @@ f

Del(f, k) == [x \in DOMAIN f \ {k} |-> f[x]]

\* index of the first element of s that satisfies test, Len(s) + 1 if none
FirstIdx(s, test(_)) ==
    Let({i \in 1 .. Len(s) : test(s[i])},
        LAMBDA I : IF I = {} THEN Len(s) + 1 ELSE SetMin(I))

\* target_pos of defence() when the direct route has at least three cells;
\* <<>> is None.  raises marks the unbound flag_path read at line 639.
defence_target(w, player, opponent, initial_path) ==
    LET team == w.team
        player_pos == player.pos
        opponent_pos == opponent.pos
    IN IF opponent.hasFlag
       THEN IF w.enemy_targets = <<>> THEN [pos |-> <<>>, raises |-> FALSE]
            ELSE Let(route_to(w, opponent_pos, w.enemy_targets[1], {}),
                     LAMBDA opponent_path :
                 LET k == FirstIdx(initial_path,
                                   LAMBDA c : c \in Range(opponent_path)
                                              /\ is_in_my_territory(w, team, c))
                 IN IF opponent_path = <<>> THEN [pos |-> <<>>, raises |-> FALSE]
                    ELSE IF k <= Len(initial_path)
                    THEN [pos |-> <<initial_path[k]>>, raises |-> FALSE]
                    ELSE [pos |-> find_closest_my_territory_on_path(
                                      w, initial_path, team, player_pos),
                          raises |-> FALSE])
       ELSE IF is_in_my_territory(w, team, opponent_pos)
       THEN [pos |-> <<>>, raises |-> FALSE]
       ELSE IF w.my_flags = <<>> THEN [pos |-> <<>>, raises |-> TRUE]
       ELSE \* "if flag_path:" stands after the loop: only the last flag counts
            Let(route_to(w, opponent_pos, w.my_flags[Len(w.my_flags)], {}),
                LAMBDA flag_path :
            Let(find_intersection_with_middle_line(w, flag_path),
                LAMBDA intersection :
               IF flag_path # <<>> /\ intersection # <<>>
                  /\ intersection[1] \in Range(initial_path)
               THEN [pos |-> intersection, raises |-> FALSE]
               ELSE [pos |-> <<>>, raises |-> FALSE]))

\* filtered_path of defence(): the direct route up to the waypoint or up to
\* the first cell outside the home half
defence_filter(w, team, initial_path, target_pos) ==
    LET stop(c) == (target_pos # <<>> /\ c = target_pos[1])
                   \/ ~is_in_my_territory(w, team, c)
    IN Let(FirstIdx(initial_path, stop),
           LAMBDA k :
              IF k > Len(initial_path) THEN initial_path
              ELSE IF target_pos # <<>> /\ initial_path[k] = target_pos[1]
              THEN SubSeq(initial_path, 1, k)
              ELSE SubSeq(initial_path, 1, k - 1))

\* is_on_boundary of defence(): |x - (middle_line - 1)| < 0.5 for team L,
\* |x - middle_line| < 0.5 for team R
is_on_boundary(w, team, player_pos) ==
    IF team = "L" THEN 2 * player_pos[1] = MiddleLine2(w) - 2
    ELSE IF team = "R" THEN 2 * player_pos[1] = MiddleLine2(w)
    ELSE FALSE

\* defence() once the direct route initial_path (two cells or more) is known
defence_step(w, player, opponent, initial_path) ==
    LET team == w.team
        player_pos == player.pos
    IN Let(IF Len(initial_path) >= 3
           THEN defence_target(w, player, opponent, initial_path)
           ELSE [pos |-> <<>>, raises |-> FALSE],
           LAMBDA tgt :
       Let(IF tgt.pos # <<>> /\ ~is_in_my_territory(w, team, tgt.pos[1])
           THEN <<>> ELSE tgt.pos,
           LAMBDA target_pos :
       Let(defence_filter(w, team, initial_path, target_pos),
           LAMBDA filtered_path :
       Let(IF Len(initial_path) >= 3
           THEN IF Len(filtered_path) <= 1 THEN <<>>
                ELSE IF filtered_path[Len(filtered_path)] = player_pos THEN <<>>
                ELSE filtered_path
           ELSE initial_path,
           LAMBDA p :
            IF tgt.raises THEN [dir |-> "", drop |-> FALSE, raises |-> TRUE]
            ELSE IF Len(p) > 1
            THEN IF is_on_boundary(w, team, player_pos)
                    /\ is_in_enemy_territory(w, team, p[2])
                 THEN [dir |-> "", drop |-> TRUE, raises |-> FALSE]
                 ELSE [dir |-> get_direction(player_pos, p[2]), drop |-> FALSE,
                       raises |-> FALSE]
            ELSE [dir |-> "", drop |-> TRUE, raises |-> FALSE]))))

\* defence(player, opponent): the direction returned, whether the call
\* deletes the player's entry of player_defence_targets, and whether it raises
defence(w, player, opponent) ==
    Let(defence_route(w, player.pos, opponent.pos),
        LAMBDA initial_path :
           IF Len(initial_path) < 2
           THEN [dir |-> "", drop |-> FALSE, raises |-> FALSE]
           ELSE defence_step(w, player, opponent, initial_path))

\* the route scoring() tries for one flag: improved_route, then world.route_to
scoring_path(w, player_pos, flag_pos) ==
    LET first == srv_improved_route(w, player_pos, flag_pos)
    IN IF Len(first) <= 1 THEN route_to(w, player_pos, flag_pos, {}) ELSE first

\* scoring(player, target_flag) for a player without a flag: the direction and
\* the flag the step leads to (<<>> when none)
scoring(w, player, target_flag) ==
    LET player_pos == player.pos
    IN IF w.enemy_flags = <<>> THEN [dir |-> "", flag |-> <<>>]
       ELSE
         Let(IF target_flag \in Range(w.enemy_flags)
             THEN scoring_path(w, player_pos, target_flag) ELSE <<>>,
             LAMBDA chosen :
               IF Len(chosen) > 1
               THEN [dir |-> get_direction(player_pos, chosen[2]),
                     flag |-> <<target_flag>>]
               ELSE Let(FirstMin(w.enemy_flags,
                          LAMBDA f : f # target_flag
                                     /\ Len(scoring_path(w, player_pos, f)) > 1,
                          LAMBDA f : Len(scoring_path(w, player_pos, f))),
                        LAMBDA other :
                          IF other # <<>>
                          THEN [dir |-> get_direction(player_pos,
                                            scoring_path(w, player_pos, other[1])[2]),
                                flag |-> other]
                          ELSE [dir |-> "", flag |-> <<>>]))

\* saving(player): one step toward the prison cell nearest the first prisoner
saving(w, player) ==
    LET prisoners == imprisoned(w.mine)
        closest_prison == FirstMin(w.my_prisons, LAMBDA c : TRUE,
                                   LAMBDA c : heuristic(prisoners[1].pos, c))
        first == srv_improved_route(w, player.pos, closest_prison[1])
    IN IF prisoners = <<>> THEN ""
       ELSE IF w.my_prisons = <<>> THEN ""
       ELSE IF Len(first) > 1 THEN get_direction(player.pos, first[2])
       ELSE Let(route_to(w, player.pos, closest_prison[1], {}),
                LAMBDA second :
                   IF Len(second) > 1 THEN get_direction(player.pos, second[2])
                   ELSE "")

\* --------------------------------------------- plan_next_actions, server.py
Count(s, test(_)) == Cardinality({i \in 1 .. Len(s) : test(s[i])})

\* player_assignments: the role of the player numbered num (0, 1, 2) from
\* the score difference and the number of imprisoned opponents; any other
\* player defaults to "scoring"
role_of(num, score_diff, enemy_prison_count) ==
    LET d == "defence"
        s == "scoring"
        table == IF score_diff < 0
                 THEN IF enemy_prison_count <= 1 THEN <<d, s, s>> ELSE <<s, s, s>>
                 ELSE IF score_diff = 0
                 THEN IF enemy_prison_count <= 1 THEN <<d, d, s>>
                      ELSE IF enemy_prison_count = 2 THEN <<d, s, s>>
                      ELSE <<s, s, s>>
                 ELSE IF enemy_prison_count <= 2 THEN <<d, d, d>> ELSE <<s, s, s>>
    IN IF num \in 0 .. 2 THEN table[num + 1] ELSE s

score_diff_of(w) ==
    Count(w.my_flags, LAMBDA f : f \in Range(w.my_targets))
    - Count(w.enemy_flags, LAMBDA f : f \in Range(w.enemy_targets))

\* the loop over my_players_return: one step along world.route_to toward
\* my_targets[0], opponents' cells being obstacles only in enemy territory
return_step(w, p) ==
    LET opponents == active(w.theirs)
        extra == IF is_in_enemy_territory(w, w.team, p.pos)
                 THEN {opponents[i].pos : i \in 1 .. Len(opponents)} ELSE {}
    IN IF w.my_targets = <<>> THEN ""
       ELSE Let(route_to(w, p.pos, w.my_targets[1], extra),
                LAMBDA route :
                   IF Len(route) > 1 THEN get_direction(p.pos, route[2]) ELSE "")

\* the first active opponent that carries a flag inside the home half
flag_carrier_in_my_territory(w) ==
    LET opponents == active(w.theirs)
        k == FirstIdx(opponents, LAMBDA o : o.hasFlag
                                            /\ is_in_my_territory(w, w.team, o.pos))
    IN IF k <= Len(opponents) THEN <<opponents[k]>> ELSE <<>>

\* no sticky target: the recorded opponent is never kept
kept_target_none(w, p, pdt, available) == <<>>

\* the sticky target of the defence branch: the recorded opponent, if it is
\* still available and stands in enemy territory
kept_target(w, p, pdt, available) ==
    LET is_current(o) == p.name \in DOMAIN pdt /\ o.name = pdt[p.name]
        k == FirstIdx(available, is_current)
    IN IF k <= Len(available) /\ is_in_enemy_territory(w, w.team, available[k].pos)
       THEN <<available[k]>> ELSE <<>>

\* the opponent the defence branch hands to defence(), <<>> when none, and
\* whether it is a new target to record in player_defence_targets
defence_choice(w, p, pdt, assigned_enemies) ==
    LET opponents == active(w.theirs)
        available == SelectSeq(opponents, LAMBDA o : o.name \notin assigned_enemies)
        is_current(o) == p.name \in DOMAIN pdt /\ o.name = pdt[p.name]
        others == SelectSeq(available, LAMBDA o : ~is_current(o))
        in_my == SelectSeq(others, LAMBDA o : is_in_my_territory(w, w.team, o.pos))
        in_enemy == SelectSeq(others, LAMBDA o : ~is_in_my_territory(w, w.team, o.pos))
        target_list == IF in_my # <<>> THEN in_my ELSE in_enemy
    IN Let(kept_target(w, p, pdt, available),
           LAMBDA kept :
              IF kept # <<>> THEN [opp |-> kept, new |-> FALSE]
              ELSE Let(FirstMin(target_list,
                          LAMBDA o : defence_route(w, p.pos, o.pos) # <<>>,
                          LAMBDA o : Len(defence_route(w, p.pos, o.pos))),
                       LAMBDA fresh : [opp |-> fresh, new |-> fresh # <<>>]))

\* the flag the scoring branch hands to scoring(): the available flag with
\* the highest (nearest opponent's route length - own route length), both
\* measured with improved_route; <<>> when no flag has a route
scoring_choice(w, p, assigned_flags) ==
    LET opponents == active(w.theirs)
        available == SelectSeq(w.enemy_flags, LAMBDA f : f \notin assigned_flags)
        mine(f) == Len(srv_improved_route(w, p.pos, f))
        lens(f) == {Len(srv_improved_route(w, opponents[i].pos, f)) :
                       i \in 1 .. Len(opponents)} \ {0}
        score(f) == (IF lens(f) = {} THEN 1000 ELSE SetMin(lens(f))) - mine(f)
    IN FirstMin(available, LAMBDA f : mine(f) > 0 /\ score(f) > -1,
                LAMBDA f : -score(f))

\* acc carries through the loop over my_players_go: actions,
\* assigned_enemies, assigned_flags, player_defence_targets (pdt), whether a
\* call raised, and the bookkeeping aim (what each emitted action is directed
\* at), chose (the opponent the defence branch selected) and pool
\* (assigned_enemies as the player's pass found it)

\* an action toward opponent o, as defence() answered with res
with_defence(acc, p, o, res) ==
    [acc EXCEPT
       !.pdt = IF res.drop THEN Del(@, p.name) ELSE @,
       !.raises = @ \/ res.raises,
       !.actions = IF res.dir # "" THEN Put(@, p.name, res.dir) ELSE @,
       !.aim = IF res.dir # ""
               THEN Put(@, p.name, [kind |-> "opponent", id |-> o.name]) ELSE @,
       !.assigned_enemies = IF res.dir # "" THEN @ \cup {o.name} ELSE @]

\* the branch task_type == "defence"
plan_defence(w, acc, p) ==
    LET opponents == active(w.theirs)
        anyAvailable == \E i \in 1 .. Len(opponents) :
                            opponents[i].name \notin acc.assigned_enemies
    IN IF ~anyAvailable THEN acc
       ELSE Let(defence_choice(w, p, acc.pdt, acc.assigned_enemies),
                LAMBDA dc :
                  IF dc.opp = <<>> THEN [acc EXCEPT !.pdt = Del(@, p.name)]
                  ELSE Let(defence(w, p, dc.opp[1]),
                           LAMBDA dres :
                             with_defence(
                               [acc EXCEPT
                                  !.pdt = IF dc.new
                                          THEN Put(@, p.name, dc.opp[1].name) ELSE @,
                                  !.chose = Put(@, p.name, dc.opp[1].name)],
                               p, dc.opp[1], dres)))

\* the branch task_type == "scoring"
plan_scoring(w, acc, p) ==
    IF w.enemy_flags = <<>> THEN acc
    ELSE Let(scoring_choice(w, p, acc.assigned_flags),
             LAMBDA sc :
               IF sc = <<>> THEN acc
               ELSE Let(scoring(w, p, sc[1]),
                        LAMBDA sres :
                          IF sres.dir = "" THEN acc
                          ELSE [acc EXCEPT
                                  !.actions = Put(@, p.name, sres.dir),
                                  !.aim = Put(@, p.name,
                                              [kind |-> "flag", id |-> sres.flag[1]]),
                                  !.assigned_flags = @ \cup {sc[1]}]))

\* the overrides that follow the branch: the flag carrier in the home half,
\* then the prisoners
plan_override(w, acc, p, carrier, my_prison_count) ==
    LET withSaving ==
            Let(saving(w, p),
                LAMBDA sdir :
                  IF sdir # ""
                  THEN [acc EXCEPT !.actions = Put(@, p.name, sdir),
                                   !.aim = Put(@, p.name, [kind |-> "prison",
                                                           id |-> "prison"])]
                  ELSE acc)
        go == SelectSeq(active(w.mine), LAMBDA q : ~q.hasFlag)
        other_players_saving ==
            \E i \in 1 .. Len(go) :
                go[i].name # p.name /\ go[i].name \in DOMAIN acc.actions
    IN IF carrier # <<>>
       THEN Let(defence(w, p, carrier[1]),
                LAMBDA cres : with_defence(acc, p, carrier[1], cres))
       ELSE IF my_prison_count = 2 THEN withSaving
       ELSE IF my_prison_count = 1
       THEN IF ~other_players_saving THEN withSaving ELSE acc
       ELSE IF p.name \notin DOMAIN acc.actions
       THEN IF imprisoned(w.mine) # <<>> THEN withSaving ELSE acc
       ELSE acc

\* a player without a reachable flag is left without an entry
plan_fallback_no_hold(w, acc, p) ==
    IF p.name \in DOMAIN acc.actions THEN acc
    ELSE Let([i \in 1 .. Len(w.enemy_flags) |->
                 route_to(w, p.pos, w.enemy_flags[i], {})] \o <<>>,
             LAMBDA routes :
               LET k == FirstIdx(routes, LAMBDA r : Len(r) > 1)
               IN IF k <= Len(routes)
                  THEN [acc EXCEPT
                          !.actions = Put(@, p.name,
                                          get_direction(p.pos, routes[k][2])),
                          !.aim = Put(@, p.name,
                                      [kind |-> "flag", id |-> w.enemy_flags[k]])]
                  ELSE acc)

\* the fallback of a player still without an action: the first enemy flag
\* world.route_to reaches, else ""
plan_fallback(w, acc, p) ==
    IF p.name \in DOMAIN acc.actions THEN acc
    ELSE Let([i \in 1 .. Len(w.enemy_flags) |->
                 route_to(w, p.pos, w.enemy_flags[i], {})] \o <<>>,
             LAMBDA routes :
               LET k == FirstIdx(routes, LAMBDA r : Len(r) > 1)
               IN IF k <= Len(routes)
                  THEN [acc EXCEPT
                          !.actions = Put(@, p.name,
                                          get_direction(p.pos, routes[k][2])),
                          !.aim = Put(@, p.name,
                                      [kind |-> "flag", id |-> w.enemy_flags[k]])]
                  ELSE [acc EXCEPT !.actions = Put(@, p.name, "")])

\* one pass of the loop over my_players_go for player p
plan_player(w, acc, p, task_type, carrier, my_prison_count) ==
    IF p.name \in DOMAIN acc.actions THEN acc
    ELSE Let(IF task_type = "defence"
             THEN plan_defence(w, [acc EXCEPT !.pool = Put(@, p.name, acc.assigned_enemies)], p)
             ELSE plan_scoring(w, [acc EXCEPT !.pool = Put(@, p.name, acc.assigned_enemies)], p),
             LAMBDA a2 :
               Let(plan_override(w, a2, p, carrier, my_prison_count),
                   LAMBDA a3 : plan_fallback(w, a3, p)))

RECURSIVE plan_loop(_, _, _, _, _, _, _)
plan_loop(w, acc, go, i, score_diff, carrier, my_prison_count) ==
    IF i > Len(go) \/ acc.raises THEN acc
    ELSE Let(plan_player(w, acc, go[i],
                         role_of(go[i].num, score_diff, Len(imprisoned(w.theirs))),
                         carrier, my_prison_count),
             LAMBDA a : plan_loop(w, a, go, i + 1, score_diff, carrier,
                                  my_prison_count))

RECURSIVE return_loop(_, _, _, _)
return_loop(w, acc, back, i) ==
    IF i > Len(back) THEN acc
    ELSE Let(return_step(w, back[i]),
             LAMBDA d :
               return_loop(w,
                   IF d # ""
                   THEN [acc EXCEPT !.actions = Put(@, back[i].name, d),
                                    !.aim = Put(@, back[i].name,
                                                [kind |-> "home", id |-> "home"])]
                   ELSE acc,
                   back, i + 1))

\* plan_next_actions(req) on snapshot w with player_defence_targets = pdt
plan_next_actions(w, pdt) ==
    LET free == active(w.mine)
        my_players_go == SelectSeq(free, LAMBDA p : ~p.hasFlag)
        my_players_return == SelectSeq(free, LAMBDA p : p.hasFlag)
        acc0 == [actions |-> << >>, aim |-> << >>, chose |-> << >>, pool |-> << >>,
                 assigned_enemies |-> {}, assigned_flags |-> {},
                 pdt |-> pdt, raises |-> FALSE]
    IN Let(return_loop(w, acc0, my_players_return, 1),
           LAMBDA acc1 :
             Let(flag_carrier_in_my_territory(w),
                 LAMBDA carrier :
                   plan_loop(w, acc1, my_players_go, 1, score_diff_of(w),
                             carrier, Len(imprisoned(w.mine)))))

\* ------------------------------ plan_next_actions of src/pick_test.py
\* the values of a dict
Values(f) == {f[k] : k \in DOMAIN f}

\* a dict comprehension: the items of f that satisfy keep
Filter(f, keep(_, _)) == [k \in {x \in DOMAIN f : keep(x, f[x])} |-> f[k]]

Names(ps) == [i \in 1 .. Len(ps) |-> ps[i].name]

\* the chosen element stays in the list
remove_nothing(s, x) == s

\* list.remove(x): s without its first element equal to x
remove(s, x) ==
    LET k == FirstIdx(s, LAMBDA e : e = x)
    IN SubSeq(s, 1, k - 1) \o SubSeq(s, k + 1, Len(s))

\* one of the three allocation loops over my_players_go: a player without an
\* entry takes available[player_num % len(available)], which then leaves the
\* list
RECURSIVE allocate(_, _, _, _)
allocate(go, i, assignments, available) ==
    IF i > Len(go) THEN assignments
    ELSE IF go[i].name \notin DOMAIN assignments /\ available # <<>>
    THEN LET assigned == available[(go[i].num % Len(available)) + 1]
         IN allocate(go, i + 1, Put(assignments, go[i].name, assigned),
                     remove(available, assigned))
    ELSE allocate(go, i + 1, assignments, available)

\* lines 66-161 of plan_next_actions: the three maps are cleaned, then filled.
\* The rest of the handler (lines 162-303) reads the maps and fills the dict
\* it returns; it assigns to none of the three.
pick_allocation(w, enemy, flag, rescue) ==
    LET my_players_go == SelectSeq(active(w.mine), LAMBDA p : ~p.hasFlag)
        my_players_in_prison == imprisoned(w.mine)
        opponents == active(w.theirs)
        enemy_flags == w.enemy_flags
        active_player_names == Range(Names(my_players_go))
        available_flag_positions == Range(enemy_flags)
        players_in_prison_names == Range(Names(my_players_in_prison))
        enemy1 == Filter(enemy, LAMBDA n, v : n \in active_player_names)
        flag1 == Filter(flag, LAMBDA n, v : n \in active_player_names
                                            /\ v \in available_flag_positions)
        rescue1 == Filter(rescue, LAMBDA n, v : n \in active_player_names
                                                /\ v \in players_in_prison_names)
        available_opponents ==
            SelectSeq(Names(opponents), LAMBDA n : n \notin Values(enemy1))
        available_flags == SelectSeq(enemy_flags, LAMBDA f : f \notin Values(flag1))
        available_prisoners ==
            SelectSeq(Names(my_players_in_prison), LAMBDA n : n \notin Values(rescue1))
    IN [enemy |-> allocate(my_players_go, 1, enemy1, available_opponents),
        flag |-> IF enemy_flags # <<>>
                 THEN allocate(my_players_go, 1, flag1, available_flags)
                 ELSE flag1,
        rescue |-> allocate(my_players_go, 1, rescue1, available_prisoners)]

\* ------------------------------------ src/backend/defensive_ai_outline.py
Max2(a, b) == IF a > b THEN a ELSE b

calculate_distance(pos1, pos2_data) ==
    Abs(pos1[1] - pos2_data.pos[1]) + Abs(pos1[2] - pos2_data.pos[2])

\* the situation of the tick; my_score and enemy_score are the request's
\* myScore and enemyScore
analyze_game_situation(w) ==
    LET my_players == active(w.mine)
        my_imprisoned == imprisoned(w.mine)
        opponents == active(w.theirs)
        player_advantage == Len(my_players) - Len(opponents)
        phase == IF w.myScore > w.enemyScore THEN "leading"
                 ELSE IF w.myScore = w.enemyScore
                 THEN IF player_advantage > 0 THEN "tied_with_advantage"
                      ELSE "tied_no_advantage"
                 ELSE "leading"
    IN [phase |-> IF my_imprisoned # <<>> /\ player_advantage < 0
                  THEN "disadvantage" ELSE phase,
        my_players |-> my_players,
        my_imprisoned |-> my_imprisoned,
        opponents |-> opponents,
        enemy_flags |-> w.enemy_flags,
        player_advantage |-> player_advantage]

\* the home column next to the mid-line, moved back by three when leading
defense_x(w) ==
    LET middle_x == w.width \div 2
        base_defense_x == IF my_side_is_left(w) THEN middle_x - 1 ELSE middle_x
        defense_offset == IF w.myScore > w.enemyScore THEN 3 ELSE 0
    IN Max2(0, Min2(w.width - 1,
                    IF my_side_is_left(w) THEN base_defense_x - defense_offset
                    ELSE base_defense_x + defense_offset))

\* acc carries the four dicts through the assignment functions, with the
\* bookkeeping aim (the opponent or flag taken from a pool for the unit) and
\* pool (assigned_flags_set as the unit's pass of assign_safe_flags found it)

\* player_targets[name] = target; player_states[name] = state
set_role(acc, name, state, target) ==
    [acc EXCEPT !.player_states = Put(@, name, state),
                !.player_targets = Put(@, name, target)]

\* the opponent or flag id leaves a pool on behalf of the player
takes(acc, name, kind, id) ==
    [acc EXCEPT !.aim = Put(@, name, [kind |-> kind, id |-> id])]

opp_named(opponents, name) ==
    opponents[FirstIdx(opponents, LAMBDA o : o.name = name)]

assign_defense_position(w, acc, player, opponents) ==
    Let(FirstMin(opponents, LAMBDA o : TRUE,
                 LAMBDA o : calculate_distance(player.pos, o)),
        LAMBDA nearest_opp :
          set_role(acc, player.name, "absolute_defense",
                   IF opponents # <<>> THEN <<defense_x(w), nearest_opp[1].pos[2]>>
                   ELSE <<defense_x(w), w.height \div 2>>))

\* assign_absolute_defense, first round: a player whose tracked opponent is
\* still in the field keeps it.  st = [acc, available, assigned]
RECURSIVE keep_tracked(_, _, _, _, _)
keep_tracked(w, st, my_players, i, opponents) ==
    IF i > Len(my_players) THEN st
    ELSE LET player_name == my_players[i].name
             tracking == st.acc.player_tracking_opponents
         IN IF player_name \in DOMAIN tracking
               /\ tracking[player_name] \in Range(st.available)
            THEN LET tracked_opp == tracking[player_name]
                     target_y == opp_named(opponents, tracked_opp).pos[2]
                 IN keep_tracked(w,
                        [acc |-> takes(set_role(st.acc, player_name, "absolute_defense",
                                                <<defense_x(w), target_y>>),
                                       player_name, "opponent", tracked_opp),
                         available |-> remove(st.available, tracked_opp),
                         assigned |-> st.assigned \cup {player_name}],
                        my_players, i + 1, opponents)
            ELSE keep_tracked(w, st, my_players, i + 1, opponents)

\* second round: an unassigned player takes the nearest opponent left, or
\* the middle of the defence line when none is left
RECURSIVE track_closest(_, _, _, _, _)
track_closest(w, st, unassigned, i, opponents) ==
    IF i > Len(unassigned) THEN st
    ELSE LET player == unassigned[i]
         IN IF st.available # <<>>
            THEN Let(FirstMin(st.available, LAMBDA n : TRUE,
                              LAMBDA n : calculate_distance(player.pos,
                                                            opp_named(opponents, n)))[1],
                     LAMBDA closest_opp :
                       track_closest(w,
                         [st EXCEPT
                            !.acc = takes(
                               set_role([@ EXCEPT !.player_tracking_opponents =
                                                    Put(@, player.name, closest_opp)],
                                        player.name, "absolute_defense",
                                        <<defense_x(w),
                                          opp_named(opponents, closest_opp).pos[2]>>),
                               player.name, "opponent", closest_opp),
                            !.available = remove(@, closest_opp)],
                         unassigned, i + 1, opponents))
            ELSE track_closest(w,
                   [st EXCEPT !.acc = set_role(@, player.name, "absolute_defense",
                                               <<defense_x(w), w.height \div 2>>)],
                   unassigned, i + 1, opponents)

RECURSIVE defend_middle(_, _, _, _)
defend_middle(w, acc, my_players, i) ==
    IF i > Len(my_players) THEN acc
    ELSE defend_middle(w, set_role(acc, my_players[i].name, "absolute_defense",
                                   <<defense_x(w), w.height \div 2>>),
                       my_players, i + 1)

assign_absolute_defense(w, acc, situation) ==
    LET my_players == situation.my_players
        opponents == situation.opponents
    IN IF opponents = <<>> THEN defend_middle(w, acc, my_players, 1)
       ELSE Let(keep_tracked(w, [acc |-> acc, available |-> Names(opponents),
                                 assigned |-> {}],
                             my_players, 1, opponents),
                LAMBDA st :
                  track_closest(w, st,
                      SelectSeq(my_players, LAMBDA p : p.name \notin st.assigned),
                      1, opponents).acc)

\* every player takes the nearest flag no earlier player took
RECURSIVE assign_all_attack(_, _, _, _, _)
assign_all_attack(acc, my_players, i, enemy_flags, assigned_flags_set) ==
    IF i > Len(my_players) THEN acc
    ELSE LET player == my_players[i]
         IN Let(FirstMin(enemy_flags, LAMBDA f : f \notin assigned_flags_set,
                         LAMBDA f : Abs(player.pos[1] - f[1])
                                    + Abs(player.pos[2] - f[2])),
                LAMBDA best_flag :
                  IF best_flag # <<>>
                  THEN assign_all_attack(
                         takes(set_role([acc EXCEPT !.player_assigned_flags =
                                                      Put(@, player.name, best_flag[1])],
                                        player.name, "opportunity_attack", best_flag[1]),
                               player.name, "flag", best_flag[1]),
                         my_players, i + 1, enemy_flags,
                         assigned_flags_set \cup {best_flag[1]})
                  ELSE assign_all_attack(acc, my_players, i + 1, enemy_flags,
                                         assigned_flags_set))

safety_margin == 2

\* the smallest distance from a free opponent to the flag; <<>> is infinity
min_enemy_dist(flag_pos, free_opponents) ==
    IF free_opponents = <<>> THEN <<>>
    ELSE <<SetMin({calculate_distance(flag_pos, free_opponents[k]) :
                      k \in 1 .. Len(free_opponents)})>>

\* the safety test without the margin
flag_is_safe_nomargin(path_length, enemy_dist) ==
    enemy_dist = <<>> \/ path_length < enemy_dist[1]

\* path_length + safety_margin < min_enemy_dist
flag_is_safe(path_length, enemy_dist) ==
    enemy_dist = <<>> \/ path_length + safety_margin < enemy_dist[1]

RECURSIVE safe_flags_loop(_, _, _, _, _, _, _)
safe_flags_loop(w, acc, attack_players, i, opponents, free_opponents, taken) ==
    IF i > Len(attack_players) THEN acc
    ELSE LET player == attack_players[i]
             \* taken is assigned_flags_set
             seen == [acc EXCEPT !.pool = Put(@, player.name, taken)]
             path_length(f) == Len(route_to(w, player.pos, f, {}))
         IN Let(FirstMin(w.enemy_flags,
                         LAMBDA f : /\ f \notin taken
                                    /\ path_length(f) > 0
                                    /\ flag_is_safe(path_length(f),
                                                    min_enemy_dist(f, free_opponents)),
                         path_length),
                LAMBDA best_flag :
                  IF best_flag # <<>>
                  THEN safe_flags_loop(w,
                         takes(set_role([seen EXCEPT !.player_assigned_flags =
                                                       Put(@, player.name, best_flag[1])],
                                        player.name, "opportunity_attack", best_flag[1]),
                               player.name, "flag", best_flag[1]),
                         attack_players, i + 1, opponents, free_opponents,
                         taken \cup {best_flag[1]})
                  ELSE safe_flags_loop(w,
                         assign_defense_position(w, seen, player, opponents),
                         attack_players, i + 1, opponents, free_opponents,
                         taken))

assign_safe_flags(w, acc, attack_players, opponents, used_opponents) ==
    safe_flags_loop(w, acc, attack_players, 1, opponents,
                    SelectSeq(opponents, LAMBDA o : o.name \notin used_opponents), {})

\* sorted(..., key): stable, the earlier of two equal keys first
sorted(s, key(_)) ==
    LET rank(i) == Cardinality({j \in 1 .. Len(s) :
                                   \/ key(s[j]) < key(s[i])
                                   \/ (key(s[j]) = key(s[i]) /\ j < i)})
    IN [k \in 1 .. Len(s) |-> s[CHOOSE i \in 1 .. Len(s) : rank(i) = k - 1]]

nearest_opponent(player, opponents) ==
    FirstMin(opponents, LAMBDA o : TRUE,
             LAMBDA o : calculate_distance(player.pos, o))[1]

\* the loop that names the distraction players, nearest first: a player
\* whose nearest opponent nobody pulls yet pulls it to the edge of the map.
\* st = [acc, distraction_players, used_opponents]
RECURSIVE distraction_loop(_, _, _, _, _)
distraction_loop(w, st, order, i, opponents) ==
    IF i > Len(order) THEN st
    ELSE LET player == order[i]
             opp == nearest_opponent(player, opponents)
             target_y == IF opp.pos[2] < w.height \div 2 THEN 0 ELSE w.height - 1
             middle_x == w.width \div 2
             line_x == IF my_side_is_left(w) THEN middle_x - 1 ELSE middle_x
         IN IF opp.name \notin st.used_opponents
               /\ Cardinality(st.distraction_players) < Len(opponents)
            THEN distraction_loop(w,
                   [acc |-> set_role(st.acc, player.name, "distraction",
                                     <<line_x, target_y>>),
                    distraction_players |-> st.distraction_players \cup {player.name},
                    used_opponents |-> st.used_opponents \cup {opp.name}],
                   order, i + 1, opponents)
            ELSE distraction_loop(w, st, order, i + 1, opponents)

RECURSIVE defence_positions(_, _, _, _, _)
defence_positions(w, acc, players, i, opponents) ==
    IF i > Len(players) THEN acc
    ELSE defence_positions(w, assign_defense_position(w, acc, players[i], opponents),
                           players, i + 1, opponents)

\* returns acc and the arguments of the call of assign_safe_flags, if any
assign_distraction_and_opportunity(w, acc, situation) ==
    LET my_players == situation.my_players
        opponents == situation.opponents
        enemy_flags == situation.enemy_flags
        none == [attack_players |-> <<>>, used_opponents |-> {}]
    IN IF opponents = <<>>
       THEN [acc |-> IF enemy_flags # <<>>
                     THEN assign_all_attack(acc, my_players, 1, enemy_flags, {})
                     ELSE acc,
             call |-> none]
       ELSE Let(distraction_loop(w,
                    [acc |-> acc, distraction_players |-> {}, used_opponents |-> {}],
                    sorted(my_players,
                           LAMBDA p : calculate_distance(
                                         p.pos, nearest_opponent(p, opponents))),
                    1, opponents),
                LAMBDA st :
                  LET attack_players ==
                          SelectSeq(my_players,
                                    LAMBDA p : p.name \notin st.distraction_players)
                  IN IF attack_players # <<>> /\ enemy_flags # <<>>
                     THEN [acc |-> assign_safe_flags(w, st.acc, attack_players,
                                                     opponents, st.used_opponents),
                           call |-> [attack_players |-> attack_players,
                                     used_opponents |-> st.used_opponents]]
                     ELSE [acc |-> defence_positions(w, st.acc, attack_players, 1,
                                                     opponents),
                           call |-> none])

\* one rescuer per prisoner: the free player nearest to enemy_targets[0].
\* st = [acc, my_players, rescuers]
RECURSIVE rescue_loop(_, _, _, _)
rescue_loop(st, my_imprisoned, i, prison_pos) ==
    IF i > Len(my_imprisoned) \/ st.my_players = <<>> THEN st
    ELSE Let(FirstMin(st.my_players, LAMBDA p : TRUE,
                      LAMBDA p : Abs(p.pos[1] - prison_pos[1])
                                 + Abs(p.pos[2] - prison_pos[2]))[1],
             LAMBDA nearest_player :
               rescue_loop(
                 [acc |-> set_role(st.acc, nearest_player.name, "rescue", prison_pos),
                  my_players |-> SelectSeq(st.my_players,
                                           LAMBDA p : p.name # nearest_player.name),
                  rescuers |-> st.rescuers \cup {nearest_player.name}],
                 my_imprisoned, i + 1, prison_pos))

assign_rescue_mission(w, acc, situation) ==
    LET st == [acc |-> acc, my_players |-> situation.my_players, rescuers |-> {}]
    IN IF situation.my_imprisoned = <<>> \/ w.enemy_targets = <<>> THEN st
       ELSE rescue_loop(st, situation.my_imprisoned, 1, w.enemy_targets[1])

\* the opponents' own cells only
around_cells_only(opponents, diagonal) ==
    {opponents[k].pos : k \in 1 .. Len(opponents)}

\* the cells around the opponents that a unit avoids in the enemy half: the
\* cross, and the diagonals as well for a flag carrier
around(opponents, diagonal) ==
    {<<opponents[k].pos[1] + d[1], opponents[k].pos[2] + d[2]>> :
        k \in 1 .. Len(opponents),
        d \in {d \in (-1 .. 1) \X (-1 .. 1) : diagonal \/ d[1] = 0 \/ d[2] = 0}}

\* the route generate_moves follows for a flag carrier
carrier_route(w, player, opponents) ==
    route_to(w, player.pos, w.my_targets[1],
             IF InMySide(w, player.pos) THEN {} ELSE around(opponents, TRUE))

\* the move of one player, "" when generate_moves emits none
move_of(w, acc, player, opponents) ==
    LET curr_pos == player.pos
        player_name == player.name
        step(path) == IF Len(path) > 1 THEN get_direction(curr_pos, path[2]) ELSE ""
    IN IF player.hasFlag THEN Let(carrier_route(w, player, opponents), step)
       ELSE IF player_name \notin DOMAIN acc.player_states
               \/ player_name \notin DOMAIN acc.player_targets THEN ""
       ELSE LET state == acc.player_states[player_name]
                dest0 == acc.player_targets[player_name]
                middle_x == w.width \div 2
                dest == IF state \in {"absolute_defense", "distraction"}
                           /\ ~InMySide(w, dest0)
                        THEN IF my_side_is_left(w) THEN <<middle_x - 1, dest0[2]>>
                             ELSE <<middle_x, dest0[2]>>
                        ELSE dest0
            IN Let(route_to(w, curr_pos, dest,
                            IF InMySide(w, curr_pos) THEN {}
                            ELSE around(opponents, FALSE)),
                   step)

RECURSIVE generate_moves(_, _, _, _, _)
generate_moves(w, acc, my_players, i, opponents) ==
    IF w.my_targets = <<>> \/ i > Len(my_players) THEN << >>
    ELSE Let(move_of(w, acc, my_players[i], opponents),
             LAMBDA move :
               LET more == generate_moves(w, acc, my_players, i + 1, opponents)
               IN IF move # "" THEN Put(more, my_players[i].name, move) ELSE more)

\* plan_next_actions(req) of the outline on snapshot w: the dicts of the
\* last tick (player_states and player_targets are emptied first), the
\* moves returned, and the arguments assign_safe_flags was called with
outline_plan(w, assigned_flags, tracking) ==
    LET situation == analyze_game_situation(w)
        acc0 == [player_states |-> << >>, player_targets |-> << >>,
                 player_assigned_flags |-> assigned_flags,
                 player_tracking_opponents |-> tracking,
                 aim |-> << >>, pool |-> << >>]
        none == [attack_players |-> <<>>, used_opponents |-> {}]
    IN Let(IF situation.phase = "disadvantage"
           THEN Let(assign_rescue_mission(w, acc0, situation),
                    LAMBDA st :
                      [acc |-> defence_positions(w, st.acc,
                                   SelectSeq(situation.my_players,
                                             LAMBDA p : p.name \notin st.rescuers),
                                   1, situation.opponents),
                       call |-> none])
           ELSE IF situation.phase \in {"leading", "tied_no_advantage"}
           THEN [acc |-> assign_absolute_defense(w, acc0, situation), call |-> none]
           ELSE assign_distraction_and_opportunity(w, acc0, situation),
           LAMBDA r :
             [acc |-> r.acc, call |-> r.call,
              actions |-> generate_moves(w, r.acc, situation.my_players, 1,
                                         situation.opponents)])

\* ================================================================== state
VARIABLES
    world,                    \* the snapshot of the tick (world.update(req))
    call,                     \* arguments of the router or defence call under test
    ret,                      \* what that call returned
    pc,                       \* "pending": snapshot not planned yet; "planned"/"done"
    player_defence_targets,   \* server.py: player name -> opponent name
    actions,                  \* the mapping plan_next_actions returned
    aim,                      \* what each emitted action is directed at
    chose,                    \* the opponent each defence branch selected
    pool,                     \* the assigned set as each player's pass found it
    before,                   \* player_defence_targets when the tick began
    player_to_enemy_assignments,   \* pick_test.py: player name -> opponent name
    player_to_flag_assignments,    \* pick_test.py: player name -> flag cell
    player_to_rescue_assignments,  \* pick_test.py: rescuer name -> prisoner name
    player_states,                 \* outline: player name -> PlayerState value
    player_targets,                \* outline: player name -> target cell
    player_assigned_flags,         \* outline: player name -> flag cell
    player_tracking_opponents,     \* outline: player name -> opponent name
    turn                           \* outline: the ticks planned since start_game

\* the dicts of pick_test.py, and those of defensive_ai_outline.py
pickVars ==
    <<player_to_enemy_assignments, player_to_flag_assignments,
      player_to_rescue_assignments>>

outVars ==
    <<player_states, player_targets, player_assigned_flags, player_tracking_opponents>>

vars ==
    <<world, call, ret, pc, player_defence_targets, actions, aim, chose, pool, before,
      pickVars, outVars, turn>>

\* start_game of pick_test.py and of the outline: the dicts are emptied
PickStart ==
    /\ player_to_enemy_assignments = << >>
    /\ player_to_flag_assignments = << >>
    /\ player_to_rescue_assignments = << >>

OutStart ==
    /\ player_states = << >>
    /\ player_targets = << >>
    /\ player_assigned_flags = << >>
    /\ player_tracking_opponents = << >>
    /\ turn = 0

NoCall == [src |-> <<0, 0>>, dst |-> <<0, 0>>, extra |-> {}]

\* ---------------------------------------------------------------- bounds
\* the map of the allocator's and the defence planner's snapshots
Width == 6
Height == 2

\* ------------------------------------------------------------- snapshots
Player(name, num, pos, hasFlag, inPrison) ==
    [name |-> name, num |-> num, pos |-> pos, hasFlag |-> hasFlag, inPrison |-> inPrison]

\* the fixed part of a snapshot of team L on the Width x Height map: delivery
\* regions in the two far corners, one prison cell, one own flag
BaseWorld ==
    [width |-> Width, height |-> Height, team |-> "L", walls |-> {},
     my_targets |-> <<<<0, 0>>>>, enemy_targets |-> <<<<Width - 1, 0>>>>,
     my_prisons |-> <<<<0, Height - 1>>>>,
     my_flags |-> <<<<1, Height - 1>>>>,
     myScore |-> 0, enemyScore |-> 0]

\* where a prisoner is shown
Cell0 == <<0, 0>>

Spawns(name) ==
    CASE name = "L0" -> {<<0, 0>>, <<1, 0>>}
      [] name = "L1" -> {<<1, Height - 1>>, <<Width \div 2 - 1, 0>>}
      [] name = "L2" -> {<<0, Height - 1>>}
      [] name = "R0" -> {<<1, Height - 1>>, <<Width \div 2, 0>>, <<Width - 2, 0>>}
      [] name = "R1" -> {<<Width \div 2, Height - 1>>, <<Width - 2, Height - 1>>}

\* the states one player can be shown in: free on one of its cells, carrying
\* a flag on the cells of flagAt, or in prison
Shown(name, num, flagAt, prisonOk) ==
    {Player(name, num, c, FALSE, FALSE) : c \in Spawns(name)}
    \cup {Player(name, num, c, TRUE, FALSE) : c \in flagAt}
    \cup IF prisonOk THEN {Player(name, num, Cell0, FALSE, TRUE)} ELSE {}

\* pickup-eligible enemy flags: none, two in the field, or one of the two
\* lying on the opponents' delivery region
FlagSets ==
    {<<>>,
     <<<<Width - 1, Height - 1>>, <<Width - 2, 0>>>>,
     <<<<Width - 1, 0>>, <<Width - 1, Height - 1>>>>}

SrvWorlds ==
    {[mine |-> <<l0, l1, l2>>, theirs |-> <<r0, r1>>, enemy_flags |-> ef] @@ BaseWorld :
        l0 \in Shown("L0", 0, {}, FALSE),
        l1 \in Shown("L1", 1, {}, TRUE),
        l2 \in Shown("L2", 2, {<<Width - 2, 0>>}, TRUE),
        r0 \in Shown("R0", 0, {<<1, Height - 1>>, <<1, 0>>}, FALSE),
        r1 \in Shown("R1", 1, {}, TRUE),
        ef \in FlagSets}

\* two snapshots of one game (the delivery regions stay) that differ in at
\* most one player, in the flags or in the score
OneChange(w, v) ==
    Cardinality({i \in 1 .. Len(w.mine) : w.mine[i] # v.mine[i]})
    + Cardinality({i \in 1 .. Len(w.theirs) : w.theirs[i] # v.theirs[i]})
    + (IF w.enemy_flags # v.enemy_flags THEN 1 ELSE 0)
    + (IF <<w.myScore, w.enemyScore>> # <<v.myScore, v.enemyScore>> THEN 1 ELSE 0) <= 1
    /\ w.my_targets = v.my_targets

\* ---------------------------------------------------- allocator, server.py
\* start_game: the tracking maps are emptied
SrvInit ==
    /\ world \in SrvWorlds
    /\ call = NoCall
    /\ ret = <<>>
    /\ pc = "pending"
    /\ player_defence_targets = << >>
    /\ actions = << >>
    /\ aim = << >>
    /\ chose = << >>
    /\ pool = << >>
    /\ before = << >>
    /\ PickStart
    /\ OutStart

\* the game moves on: the next request carries a snapshot that differs from
\* the last one in one player or in the flags (any number of these may pass
\* between two ticks)
Update(Ws) ==
    /\ \E v \in Ws : OneChange(world, v) /\ world' = v
    /\ pc' = "pending"
    /\ actions' = << >>
    /\ aim' = << >>
    /\ chose' = << >>
    /\ pool' = << >>
    /\ before' = << >>
    /\ UNCHANGED <<call, ret, player_defence_targets, pickVars, outVars, turn>>

\* one tick of plan_next_actions
Plan ==
    /\ pc = "pending"
    /\ \E r \in {plan_next_actions(world, player_defence_targets)} :
          /\ actions' = r.actions
          /\ aim' = r.aim
          /\ chose' = r.chose
          /\ pool' = r.pool
          /\ player_defence_targets' = r.pdt
    /\ before' = player_defence_targets
    /\ pc' = "planned"
    /\ UNCHANGED <<world, call, ret, pickVars, outVars, turn>>

SrvNext == Update(SrvWorlds) \/ Plan

SrvSpec == SrvInit /\ [][SrvNext]_vars

\* ------------------------------------------------- defence(), server.py
\* a snapshot of team t with the walls ws: delivery regions in the far
\* corners, one own flag in the home half
DefWorld(t, ws) ==
    [width |-> Width, height |-> Height, team |-> t, walls |-> ws,
     my_targets |-> IF t = "L" THEN <<<<0, 0>>>> ELSE <<<<Width - 1, 0>>>>,
     enemy_targets |-> IF t = "L" THEN <<<<Width - 1, 0>>>> ELSE <<<<0, 0>>>>,
     my_prisons |-> <<>>,
     my_flags |-> IF t = "L" THEN <<<<1, Height - 1>>>> ELSE <<<<Width - 2, Height - 1>>>>,
     enemy_flags |-> <<>>, mine |-> <<>>, theirs |-> <<>>,
     myScore |-> 0, enemyScore |-> 0]

AllCells == (0 .. Width - 1) \X (0 .. Height - 1)

\* walls stand on the cells next to the mid-line (two of them close the
\* column left of it) and in the home column 1
DefWallCells ==
    {<<Width \div 2 - 1, 0>>, <<Width \div 2, 0>>, <<1, 0>>, <<Width \div 2 - 1, Height - 1>>}

WallSets == {ws \in SUBSET DefWallCells : Cardinality(ws) <= MaxWalls}

\* the own flags of team t, those taken included: none, one, or two in the
\* home column next to the delivery region, in either order
DefFlagSets(t) ==
    LET x == IF t = "L" THEN 1 ELSE Width - 2
    IN {<<>>, <<<<x, Height - 1>>>>,
        <<<<x, 0>>, <<x, Height - 1>>>>, <<<<x, Height - 1>>, <<x, 0>>>>}

\* one call defence(player, opponent): any defender and opponent on cells
\* that are not walls
DefInit ==
    /\ \E t \in {"L", "R"}, ws \in WallSets :
          \E fs \in DefFlagSets(t) : world = [DefWorld(t, ws) EXCEPT !.my_flags = fs]
    /\ \E a, b \in AllCells \ world.walls, f \in BOOLEAN :
          call = [player |-> Player(world.team \o "0", 0, a, FALSE, FALSE),
                  opponent |-> Player((IF world.team = "L" THEN "R" ELSE "L") \o "0",
                                      0, b, f, FALSE)]
    /\ ret = <<>>
    /\ pc = "pending"
    /\ player_defence_targets = (call.player.name :> call.opponent.name)
    /\ actions = << >>
    /\ aim = << >>
    /\ chose = << >>
    /\ pool = << >>
    /\ before = << >>
    /\ PickStart
    /\ OutStart

Defend ==
    /\ pc = "pending"
    /\ \E r \in {defence(world, call.player, call.opponent)} :
          /\ ret' = r
          /\ player_defence_targets' =
                IF r.drop THEN Del(player_defence_targets, call.player.name)
                ELSE player_defence_targets
          /\ pc' = IF r.raises THEN "raised" ELSE "done"
    /\ UNCHANGED <<world, call, actions, aim, chose, pool, before, pickVars, outVars,
                   turn>>

DefNext == Defend

DefSpec == DefInit /\ [][DefNext]_vars

\* --------------------------------- improved_route, pathfinding_adapter.py
\* the cells a test wall may stand on: around the corner (0, 0) and beside it
RouteWallCells == {<<1, 0>>, <<0, 1>>, <<1, 1>>, <<2, 0>>}

GridCells == (0 .. GridW - 1) \X (0 .. GridH - 1)

\* cells outside the grid, one beyond each kind of edge
Outside == {<<-1, 0>>, <<GridW, 0>>, <<0, GridH>>}

\* the worlds handed to the router: up to MaxWalls walls, at most one active
\* opponent, one delivery region per team
RouteWorlds ==
    {[width |-> GridW, height |-> GridH, walls |-> ws,
      my_team_target |-> {<<0, 0>>},
      opponent_team_target |-> {<<GridW - 1, GridH - 1>>},
      opponents |-> os] :
        ws \in {x \in SUBSET RouteWallCells : Cardinality(x) <= MaxWalls},
        os \in {{}} \cup {{c} : c \in GridCells}}

RouteInit ==
    /\ world \in RouteWorlds
    /\ call \in [src : GridCells \cup Outside, dst : GridCells \cup Outside,
                 extra : {{}, {<<2, 1>>}}]
    /\ ret = <<>>
    /\ pc = "pending"
    /\ player_defence_targets = << >>
    /\ actions = << >>
    /\ aim = << >>
    /\ chose = << >>
    /\ pool = << >>
    /\ before = << >>
    /\ PickStart
    /\ OutStart

\* one call improved_route(world, srcXY, dstXY, extra_obstacles)
Route ==
    /\ pc = "pending"
    /\ ret' = improved_route(world, call.src, call.dst, call.extra)
    /\ pc' = "done"
    /\ UNCHANGED <<world, call, player_defence_targets, actions, aim, chose, pool, before,
                   pickVars, outVars, turn>>

RouteNext == Route

RouteSpec == RouteInit /\ [][RouteNext]_vars

\* ------------------------------------------- allocator of pick_test.py
\* the units of the pick_test snapshots stand on fixed cells; only who is
\* free, carrying or imprisoned, and which flags lie in the field, varies
Status(name, num, pos, flagOk) ==
    {Player(name, num, pos, FALSE, FALSE), Player(name, num, Cell0, FALSE, TRUE)}
    \cup IF flagOk THEN {Player(name, num, pos, TRUE, FALSE)} ELSE {}

PickFlagSets ==
    {<<>>,
     <<<<Width - 1, Height - 1>>, <<Width - 2, 0>>>>,
     <<<<Width - 2, 0>>>>}

PickWorlds ==
    {[mine |-> <<l0, l1, l2, l3>>, theirs |-> <<r0, r1>>, enemy_flags |-> ef]
       @@ BaseWorld :
        l0 \in {Player("L0", 0, <<0, 0>>, FALSE, FALSE)},
        l1 \in {Player("L1", 1, <<1, 0>>, f, FALSE) : f \in BOOLEAN},
        l2 \in Status("L2", 2, <<0, Height - 1>>, FALSE),
        l3 \in Status("L3", 3, <<1, Height - 1>>, FALSE),
        r0 \in {Player("R0", 0, <<Width - 1, 0>>, FALSE, FALSE)},
        r1 \in Status("R1", 1, <<Width - 1, Height - 1>>, FALSE),
        ef \in PickFlagSets}

PickInit ==
    /\ world \in PickWorlds
    /\ call = NoCall
    /\ ret = <<>>
    /\ pc = "pending"
    /\ player_defence_targets = << >>
    /\ actions = << >>
    /\ aim = << >>
    /\ chose = << >>
    /\ pool = << >>
    /\ before = << >>
    /\ PickStart
    /\ OutStart

\* one tick of plan_next_actions of pick_test.py
PickPlan ==
    /\ pc = "pending"
    /\ \E r \in {pick_allocation(world, player_to_enemy_assignments,
                                 player_to_flag_assignments,
                                 player_to_rescue_assignments)} :
          /\ player_to_enemy_assignments' = r.enemy
          /\ player_to_flag_assignments' = r.flag
          /\ player_to_rescue_assignments' = r.rescue
    /\ pc' = "planned"
    /\ UNCHANGED <<world, call, ret, player_defence_targets, actions, aim, chose, pool,
                   before, outVars, turn>>

PickNext == Update(PickWorlds) \/ PickPlan

PickSpec == PickInit /\ [][PickNext]_vars

\* ---------------------------------- allocator of defensive_ai_outline.py
NoSafeCall == [attack_players |-> <<>>, used_opponents |-> {}]

\* the length of a game of the outline, in ticks
MaxTurns == 2

\* the requests' scores: level, ahead, behind
Scores == {<<0, 0>>, <<1, 0>>, <<0, 1>>}

OutWorlds ==
    {[mine |-> <<l0, l1, l2>>, theirs |-> <<r0, r1>>, enemy_flags |-> ef,
      myScore |-> sc[1], enemyScore |-> sc[2], my_targets |-> tg] @@ BaseWorld :
        tg \in {BaseWorld.my_targets, <<>>},
        l0 \in Status("L0", 0, <<Width \div 2 - 1, 0>>, TRUE),
        l1 \in {Player("L1", 1, <<Width - 2, Height - 1>>, f, FALSE) : f \in BOOLEAN},
        l2 \in Status("L2", 2, <<1, 0>>, FALSE),
        r0 \in Status("R0", 0, <<Width \div 2 - 1, Height - 1>>, FALSE),
        r1 \in Status("R1", 1, <<0, Height - 1>>, FALSE),
        ef \in {<<>>, <<<<Width - 1, 0>>, <<Width - 1, Height - 1>>>>},
        sc \in Scores}

OutInit ==
    /\ world \in OutWorlds
    /\ call = NoSafeCall
    /\ ret = <<>>
    /\ pc = "pending"
    /\ player_defence_targets = << >>
    /\ actions = << >>
    /\ aim = << >>
    /\ chose = << >>
    /\ pool = << >>
    /\ before = << >>
    /\ PickStart
    /\ OutStart

\* one tick of plan_next_actions of the outline; call records the arguments
\* of the tick's call of assign_safe_flags
OutPlan ==
    /\ pc = "pending"
    /\ \E r \in {outline_plan(world, player_assigned_flags,
                              player_tracking_opponents)} :
          /\ player_states' = r.acc.player_states
          /\ player_targets' = r.acc.player_targets
          /\ player_assigned_flags' = r.acc.player_assigned_flags
          /\ player_tracking_opponents' = r.acc.player_tracking_opponents
          /\ aim' = r.acc.aim
          /\ pool' = r.acc.pool
          /\ actions' = r.actions
          /\ call' = r.call
    /\ turn' = turn + 1
    /\ pc' = "planned"
    /\ UNCHANGED <<world, ret, player_defence_targets, chose, before, pickVars>>

\* the next request of a game of at most MaxTurns ticks
OutUpdate == turn < MaxTurns /\ Update(OutWorlds)

OutNext == OutUpdate \/ OutPlan

OutlineSpec == OutInit /\ [][OutNext]_vars

\* ------------------------------------------------------- claims, SrvSpec
\* C1: in every tick no opponent is the target of more than one friendly
\* unit's emitted action and no enemy flag is the destination of more than
\* one friendly unit's emitted action, however the action was produced
C1_NoDuplicateTargets ==
    pc = "planned" =>
        \A a, b \in DOMAIN aim :
            (a # b /\ aim[a].kind \in {"opponent", "flag"}) => aim[a] # aim[b]

\* the free players and their roles in the snapshot
free_players == SelectSeq(active(world.mine), LAMBDA p : ~p.hasFlag)

defence_role(p) ==
    role_of(p.num, score_diff_of(world), Len(imprisoned(world.theirs))) = "defence"

\* D's recorded opponent is still active, not taken earlier in this tick, and
\* in enemy territory
StickyCase(D, O) ==
    /\ defence_role(D)
    /\ D.name \in DOMAIN pool
    /\ D.name \in DOMAIN before
    /\ before[D.name] = O.name
    /\ ~O.inPrison
    /\ O.name \notin pool[D.name]
    /\ is_in_enemy_territory(world, world.team, O.pos)

\* no override applies in the tick: no flag carrier in the home half and no
\* prisoner of the own team
NoOverride ==
    flag_carrier_in_my_territory(world) = <<>> /\ imprisoned(world.mine) = <<>>

\* C4: if player_defence_targets maps D to O when the tick begins, D is a free
\* defence-role unit, and O is active, not bound earlier in the tick and in
\* enemy territory, then the opponent handed to defence() for D is O, and an
\* opponent-directed action D emits without an override is directed at O
C4_StickyTarget ==
    pc = "planned" =>
        \A i \in 1 .. Len(free_players) : \A j \in 1 .. Len(world.theirs) :
            LET D == free_players[i]
                O == world.theirs[j]
            IN StickyCase(D, O) =>
                  /\ D.name \in DOMAIN chose
                  /\ chose[D.name] = O.name
                  /\ (NoOverride /\ D.name \in DOMAIN aim
                        /\ aim[D.name].kind = "opponent") => aim[D.name].id = O.name

\* the sticky case with another available opponent strictly nearer to D
C4_Witness ==
    /\ pc = "planned"
    /\ \E i \in 1 .. Len(free_players) : \E j, k \in 1 .. Len(world.theirs) :
          LET D == free_players[i]
              O == world.theirs[j]
              O2 == world.theirs[k]
          IN /\ StickyCase(D, O)
             /\ chose[D.name] = O.name
             /\ NoOverride
             /\ D.name \in DOMAIN aim
             /\ aim[D.name] = [kind |-> "opponent", id |-> O.name]
             /\ ~O2.inPrison
             /\ O2.name \notin pool[D.name]
             /\ defence_route(world, D.pos, O2.pos) # <<>>
             /\ Len(defence_route(world, D.pos, O2.pos))
                  < Len(defence_route(world, D.pos, O.pos))

\* ------------------------------------------------------- claims, DefSpec
\* the cell lies in the home half of the snapshot's team, by either of the
\* code's two tests (is_in_my_territory, or the side of the mid-line)
HomeHalf(c) == is_in_my_territory(world, world.team, c) \/ InMySide(world, c)

\* C3: the cell reached by applying the direction defence(player, opponent)
\* returns to the player's cell lies in the player's home half, for every
\* defender and opponent position
C3_DefenderStaysHome ==
    (pc = "done" /\ ret.dir # "") => HomeHalf(Moved(call.player.pos, ret.dir))

\* ----------------------------------------------------- claims, RouteSpec
\* the call's cells are in the grid, and the grid is empty: no wall, no extra
\* obstacle, no active opponent
InGrid == call.src \in GridCells /\ call.dst \in GridCells

EmptyGrid == world.walls = {} /\ call.extra = {} /\ world.opponents = {}

\* the number of steps between two cells
Manhattan(a, b) == Abs(a[1] - b[1]) + Abs(a[2] - b[2])

\* p leads from a to b over 4-adjacent cells
IsPath(p, a, b) ==
    /\ p # <<>>
    /\ p[1] = a
    /\ p[Len(p)] = b
    /\ \A k \in 1 .. Len(p) - 1 : Manhattan(p[k], p[k + 1]) = 1

\* C8: on an empty grid, for in-bounds src and dst, the path returned starts
\* at src, ends at dst, moves between 4-adjacent cells and has exactly
\* |dx| + |dy| + 1 cells; route((0,0),(3,0)) is the straight line
C8_EmptyGridMinimal ==
    (pc = "done" /\ InGrid /\ EmptyGrid) =>
        /\ IsPath(ret, call.src, call.dst)
        /\ Len(ret) = Manhattan(call.src, call.dst) + 1
        /\ (call.src = <<0, 0>> /\ call.dst = <<3, 0>>) =>
               ret = <<<<0, 0>>, <<1, 0>>, <<2, 0>>, <<3, 0>>>>

\* the call route((0,0),(3,0)) on the empty grid, answered
C8_Witness ==
    /\ pc = "done"
    /\ EmptyGrid
    /\ call.src = <<0, 0>>
    /\ call.dst = <<3, 0>>
    /\ Len(ret) = 4

\* the weight map of the call, and the cells it makes passable
weights == build_weight_map(world, call.extra)

passable == {c \in GridCells : weights[c] # 0}

\* the cells a sequence of 4-adjacent cells of P connects to one of S
RECURSIVE ReachFrom(_, _)
ReachFrom(P, S) ==
    LET N == S \cup {c \in P : \E d \in S : Manhattan(c, d) = 1}
    IN IF N = S THEN S ELSE ReachFrom(P, N)

DistinctPassable ==
    InGrid /\ call.src # call.dst /\ call.src \in passable /\ call.dst \in passable

\* C9: for distinct in-bounds passable src and dst the result is empty exactly
\* when no sequence of 4-adjacent passable cells connects them, and is a path
\* from src to dst over passable cells otherwise
C9_EmptyIffUnreachable ==
    (pc = "done" /\ DistinctPassable) =>
        /\ (ret = <<>>) <=> (call.dst \notin ReachFrom(passable, {call.src}))
        /\ ret # <<>> => IsPath(ret, call.src, call.dst)
                         /\ \A k \in 1 .. Len(ret) : ret[k] \in passable

\* a passable dst that impassable cells cut off from src, answered with []
C9_Witness ==
    /\ pc = "done"
    /\ DistinctPassable
    /\ call.dst \notin ReachFrom(passable, {call.src})
    /\ ret = <<>>

\* a cell the router must refuse: out of the grid, or of weight 0.0
Refused(c) == c \notin GridCells \/ weights[c] = 0

\* C10: the result is empty whenever src or dst is out of the grid or is
\* itself impassable, for every pair src, dst, src = dst included
C10_RefusesBadEndpoints ==
    (pc = "done" /\ (Refused(call.src) \/ Refused(call.dst))) => ret = <<>>

\* ------------------------------------------------------ claims, PickSpec
\* no two keys of the dict hold the same value
Injective(f) == \A a, b \in DOMAIN f : a # b => f[a] # f[b]

\* C2: after any sequence of ticks from start_game, no two friendly units
\* map to the same opponent name in player_to_enemy_assignments, to the same
\* flag position in player_to_flag_assignments, or to the same prisoner name
\* in player_to_rescue_assignments
C2_MapsInjective ==
    /\ Injective(player_to_enemy_assignments)
    /\ Injective(player_to_flag_assignments)
    /\ Injective(player_to_rescue_assignments)

\* a tick has left two entries in each of the three dicts
C2_Witness ==
    /\ pc = "planned"
    /\ Cardinality(DOMAIN player_to_enemy_assignments) >= 2
    /\ Cardinality(DOMAIN player_to_flag_assignments) >= 2
    /\ Cardinality(DOMAIN player_to_rescue_assignments) >= 2

\* --------------------------------------------------- claims, OutlineSpec
\* the free units of the snapshot that carry a flag
carriers == SelectSeq(active(world.mine), LAMBDA p : p.hasFlag)

\* C5: in every tick a non-captured friendly unit with hasFlag = true is
\* handled as a returning unit and nothing else: the direction emitted for
\* it, if any, is the first step of its route to its own delivery region, it
\* is given no defence, scoring or rescue target, and no opponent or flag
\* leaves a pool on its behalf
C5_CarrierOnlyReturns ==
    pc = "planned" =>
        \A i \in 1 .. Len(carriers) :
            LET p == carriers[i]
                home == carrier_route(world, p, active(world.theirs))
            IN /\ p.name \in DOMAIN actions =>
                     /\ Len(home) > 1
                     /\ home[Len(home)] = world.my_targets[1]
                     /\ Moved(p.pos, actions[p.name]) = home[2]
               /\ p.name \notin DOMAIN player_targets
               /\ p.name \notin DOMAIN player_states
               /\ p.name \notin DOMAIN aim

\* the arguments of the tick's call of assign_safe_flags, and the free
\* opponents it computes from them
attack_players == call.attack_players

free_opponents ==
    SelectSeq(active(world.theirs), LAMBDA o : o.name \notin call.used_opponents)

\* (length of p's route to f) + 2 < distance of every free opponent to f
SafeFor(p, f) ==
    /\ route_to(world, p.pos, f, {}) # <<>>
    /\ \A k \in 1 .. Len(free_opponents) :
          Len(route_to(world, p.pos, f, {})) + 2 < Manhattan(f, free_opponents[k].pos)

\* the flags no earlier attack player of the call was bound to
Unassigned(p) == Range(world.enemy_flags) \ pool[p.name]

\* the column of the defence line while the score is level
TiedLine ==
    IF my_side_is_left(world) THEN world.width \div 2 - 1 ELSE world.width \div 2

C11_EntriesValid ==
    pc = "planned" =>
        /\ Values(player_to_enemy_assignments) \subseteq Range(Names(active(world.theirs)))
        /\ Values(player_to_flag_assignments) \subseteq Range(world.enemy_flags)
        /\ Values(player_to_rescue_assignments)
              \subseteq Range(Names(imprisoned(world.mine)))

\* the snapshot with the delivery region in its corner
WithRegion == [world EXCEPT !.my_targets = BaseWorld.my_targets]

\* the move generate_moves computes for p from the tick's states and targets
\* when the delivery region exists
MoveWithRegion(p) ==
    move_of(WithRegion, [player_states |-> player_states,
                         player_targets |-> player_targets],
            p, active(world.theirs))

\* C12: when the friendly delivery region is empty in the tick's snapshot,
\* only the flag carriers hold position: every other unit receives the
\* action it would receive if the delivery region existed
C12_NoRegionOnlyCarriersHold ==
    (pc = "planned" /\ world.my_targets = <<>>) =>
        \A i \in 1 .. Len(active(world.mine)) :
            LET p == active(world.mine)[i]
            IN (~p.hasFlag /\ MoveWithRegion(p) # "") =>
                  /\ p.name \in DOMAIN actions
                  /\ actions[p.name] = MoveWithRegion(p)

\* C13: in every tick in which two teammates are captured, every free unit
\* for which saving() finds a route emits the first step toward the prison
\* cell, whatever else is true of the snapshot
C13_RescueEscalation ==
    (pc = "planned" /\ Len(imprisoned(world.mine)) = 2) =>
        \A i \in 1 .. Len(free_players) :
            LET p == free_players[i]
            IN saving(world, p) # "" =>
                  /\ p.name \in DOMAIN actions
                  /\ actions[p.name] = saving(world, p)

\* the active friendly units that carry no flag
holders_of_none == SelectSeq(active(world.mine), LAMBDA p : ~p.hasFlag)

\* C14: in every tick in which fewer than two opponents are imprisoned, no
\* friendly unit that is not carrying a flag is given a target cell in the
\* enemy half, and no such unit emits a move that enters the enemy half
C14_NoCrossingBeforeTwoCaptured ==
    (pc = "planned" /\ world.my_targets # <<>>
       /\ Len(imprisoned(world.theirs)) < 2) =>
        \A i \in 1 .. Len(holders_of_none) :
            LET p == holders_of_none[i]
            IN /\ p.name \in DOMAIN player_targets =>
                     InMySide(world, player_targets[p.name])
               /\ (p.name \in DOMAIN actions /\ InMySide(world, p.pos)) =>
                     InMySide(world, Moved(p.pos, actions[p.name]))

\* unit number d of the snapshot is a free defence-role unit, and opponent
\* number o is active, inside the home half and the only active opponent
Intruder(d, o) ==
    LET D == world.mine[d]
        O == world.theirs[o]
    IN /\ ~D.inPrison /\ ~D.hasFlag
       /\ defence_role(D)
       /\ is_in_my_territory(world, world.team, O.pos)
       /\ active(world.theirs) = <<O>>

\* player_defence_targets binds unit number d to opponent number o
Bound(d, o) ==
    /\ world.mine[d].name \in DOMAIN player_defence_targets
    /\ player_defence_targets[world.mine[d].name] = world.theirs[o].name

\* C15: a defence-role unit D whose bound opponent O stays active, stays
\* inside D's home half and is the only available opponent has O as its
\* defence target in every consecutive tick: when a tick ends with D bound to
\* such an intruder O and the next request shows O as such an intruder
\* still, the tick on that request leaves D bound to O
C15_BindingKeptWhileIntruding ==
    [][\A d \in 1 .. 3 : \A o \in 1 .. 2 :
          (pc = "planned" /\ Bound(d, o) /\ Intruder(d, o)
             /\ pc' = "pending" /\ Intruder(d, o)') =>
              LET next_targets == plan_next_actions(world', player_defence_targets).pdt
              IN /\ world.mine[d].name \in DOMAIN next_targets
                 /\ next_targets[world.mine[d].name] = world.theirs[o].name]_vars

\* the positions, in iteration order, of the active opponents not bound
\* earlier in the tick that D has a defence_route to, inside the home half
\* (home = TRUE) or outside it
Reachable(D, home) ==
    {i \in 1 .. Len(active(world.theirs)) :
        LET o == active(world.theirs)[i]
        IN /\ o.name \notin pool[D.name]
           /\ is_in_my_territory(world, world.team, o.pos) = home
           /\ defence_route(world, D.pos, o.pos) # <<>>}

\* D's defence branch ran in this tick without a retained target
NoRetained(D) ==
    /\ defence_role(D)
    /\ D.name \in DOMAIN pool
    /\ kept_target(world, D, before,
                   SelectSeq(active(world.theirs),
                             LAMBDA o : o.name \notin pool[D.name])) = <<>>

\* C16: when a defence-role unit has no retained target, the opponent it binds
\* is an active un-bound opponent inside the home half if any such opponent
\* has a route, otherwise one outside it, and within the chosen group it is
\* one with the smallest len(defence_route(unit, opponent)), the first in
\* iteration order among equals
C16_NearestPreferHome ==
    pc = "planned" =>
        \A k \in 1 .. Len(free_players) :
            LET D == free_players[k]
                group == IF Reachable(D, TRUE) # {} THEN Reachable(D, TRUE)
                         ELSE Reachable(D, FALSE)
                len(i) == Len(defence_route(world, D.pos, active(world.theirs)[i].pos))
            IN (NoRetained(D) /\ D.name \in DOMAIN chose) =>
                  \E i \in group :
                     /\ active(world.theirs)[i].name = chose[D.name]
                     /\ \A j \in group : len(i) < len(j) \/ (len(i) = len(j) /\ i <= j)

\* C17: in the grid returned by build_weight_map, every in-bounds
\* delivery-region cell of either team has weight 1.0, for every placement of
\* walls, extra obstacles and active opponents
C17_DeliveryCellsFullWeight ==
    pc = "done" =>
        \A c \in (world.my_team_target \cup world.opponent_team_target) \cap GridCells :
            weights[c] = 4

\* ------------------------------------------- the weight maps of server.py
\* the BFS of both builders stops expanding at distance 2
SrvBfsRadius == 2

\* hop distance recorded in distance_map of the server's builders, 4 when
\* the cell is not in it
SrvEnemyDist(w, e, blocked, c) ==
    IF c \in Ring(w, e, blocked, 0) THEN 0
    ELSE IF c \in Ring(w, e, blocked, 1) THEN 1
    ELSE IF c \in Ring(w, e, blocked, SrvBfsRadius) THEN 2
    ELSE 4

\* the cells of the active opponents that lie in the grid
OpponentCells(w) ==
    {c \in {active(w.theirs)[i].pos : i \in 1 .. Len(active(w.theirs))} : InBounds(w, c)}

\* weight_map of build_weight_map of server.py, times four: walls and extra
\* obstacles 0.0, then the delivery regions 1.0, then the minimum with
\* 0.0, 0.25, 0.5 on the rings of every active opponent
srv_build_weight_map(w, extra) ==
    LET blocked == w.walls \cup extra
        base == [c \in Cells(w) |->
                    IF c \in Range(w.my_targets) \cup Range(w.enemy_targets) THEN 4
                    ELSE IF c \in blocked THEN 0
                    ELSE 4]
    IN [c \in Cells(w) |->
            LET ds == {SrvEnemyDist(w, e, blocked, c) : e \in OpponentCells(w)}
            IN IF ds = {} THEN base[c] ELSE Min2(base[c], SetMin(ds))]

\* the engagement weight of a home cell at hop distance d of an opponent,
\* times ten
engage_weight(d) ==
    IF d = 0 THEN 15 ELSE IF d = 1 THEN 14 ELSE IF d = 2 THEN 13 ELSE 0

\* weight_map of build_defence_weight_map, times ten: home cells 1.0, walls
\* and extra obstacles 0.0, then the maximum with 1.5, 1.4, 1.3 on the home
\* cells of every active opponent's rings, and last 0.1 on every cell of the
\* enemy half
build_defence_weight_map(w, extra) ==
    LET blocked == w.walls \cup extra
        base == [c \in Cells(w) |-> IF c \in blocked THEN 0 ELSE 10]
    IN [c \in Cells(w) |->
            IF ~InMySide(w, c) THEN 1
            ELSE LET ws == {engage_weight(SrvEnemyDist(w, e, blocked, c)) :
                               e \in OpponentCells(w)}
                 IN IF ws = {} THEN base[c]
                    ELSE Max2(base[c], CHOOSE m \in ws : \A n \in ws : m >= n)]

\* the snapshots the builders are applied to: either team, walls next to the
\* mid-line and in the home column, one active opponent off the walls
WeightWorlds ==
    {[DefWorld(t, ws) EXCEPT !.theirs = <<Player("X0", 0, o, FALSE, FALSE)>>] :
        t \in {"L", "R"}, ws \in WallSets, o \in AllCells \ DefWallCells}

\* the extra obstacles of a call: none, or one cell in each half
ExtraSets == {{}, {<<1, Height - 1>>, <<Width - 2, Height - 1>>}}

WeightInit ==
    /\ world \in WeightWorlds
    /\ call \in [extra : ExtraSets]
    /\ ret = <<>>
    /\ pc = "pending"
    /\ player_defence_targets = << >>
    /\ actions = << >>
    /\ aim = << >>
    /\ chose = << >>
    /\ pool = << >>
    /\ before = << >>
    /\ PickStart
    /\ OutStart

\* one call of each builder with the same extra_obstacles
Weigh ==
    /\ pc = "pending"
    /\ ret' = [avoidance |-> srv_build_weight_map(world, call.extra),
               engagement |-> build_defence_weight_map(world, call.extra)]
    /\ pc' = "done"
    /\ UNCHANGED <<world, call, player_defence_targets, actions, aim, chose, pool, before,
                   pickVars, outVars, turn>>

WeightNext == Weigh

WeightSpec == WeightInit /\ [][WeightNext]_vars

\* ----------------------------------------------------- claims, WeightSpec
\* the in-bounds wall and extra-obstacle cells that are no delivery-region cell
Obstacles ==
    ((world.walls \cup call.extra) \cap AllCells)
        \ (Range(world.my_targets) \cup Range(world.enemy_targets))

\* C18: in the grids returned by build_weight_map and build_defence_weight_map
\* of server.py, every in-bounds wall cell and every in-bounds extra-obstacle
\* cell that is not a delivery-region cell has weight 0.0, in both halves of
\* the map
C18_ObstaclesImpassable ==
    pc = "done" =>
        \A c \in Obstacles : ret.avoidance[c] = 0 /\ ret.engagement[c] = 0

\* ------------------------------------------------ claims, RouteSpec (2)
\* the loop of improved_route with the number of its heappush written next to
\* every entry (stamp): TRUE iff some heappop takes an entry while the heap
\* holds an entry of equal f that was pushed earlier
RECURSIVE Overtakes(_, _, _, _, _, _, _, _)
Overtakes(w, wm, dstXY, open_set, g_score, closed_set, stamp, pushes) ==
    IF open_set = {} THEN FALSE
    ELSE
      LET top == HeapPop(open_set)
          current == <<top[3], top[4]>>
          rest == open_set \ {top}
          overtaken == \E u \in rest : u[1] = top[1] /\ stamp[u] < stamp[top]
      IN IF overtaken THEN TRUE
         ELSE IF current \in closed_set
         THEN Overtakes(w, wm, dstXY, rest, g_score, closed_set, stamp, pushes)
         ELSE IF current = dstXY THEN FALSE
         ELSE
           LET closed2 == closed_set \cup {current}
               tentative(n) == g_score[current] + (4 - wm[n])
               better == {i \in 1 .. 4 :
                             LET n == Step(current, i)
                             IN /\ InBounds(w, n)
                                /\ n \notin closed2
                                /\ wm[n] # 0
                                /\ (n \notin DOMAIN g_score \/ tentative(n) < g_score[n])}
               entry(i) == LET n == Step(current, i)
                           IN <<tentative(n) + 4 * heuristic(n, dstXY), tentative(n),
                                n[1], n[2]>>
               g2 == [n \in DOMAIN g_score \cup {Step(current, i) : i \in better} |->
                         IF \E i \in better : Step(current, i) = n
                         THEN tentative(n) ELSE g_score[n]]
               stamp2 == [t \in DOMAIN stamp \cup {entry(i) : i \in better} |->
                             IF t \in DOMAIN stamp THEN stamp[t]
                             ELSE pushes + (CHOOSE i \in better : entry(i) = t)]
           IN Overtakes(w, wm, dstXY, rest \cup {entry(i) : i \in better}, g2, closed2,
                        stamp2, pushes + 4)

\* C19: when two open-set entries have equal priority (equal f score), the
\* entry that was inserted first is expanded first
C19_TiesByInsertionOrder ==
    (pc = "done" /\ DistinctPassable) =>
        ~Overtakes(world, weights, call.dst, {<<0, 0, call.src[1], call.src[2]>>},
                   (call.src :> 0), {}, (<<0, 0, call.src[1], call.src[2]>> :> 0), 0)

\* ------------------------------------- improved_route on a map of three rows
\* the height of the map on which a path has room for a detour
TallH == 3

TallCells == (0 .. GridW - 1) \X (0 .. TallH - 1)

\* the worlds handed to the router: no walls, at most one active opponent,
\* one delivery region per team
TallWorlds ==
    {[width |-> GridW, height |-> TallH, walls |-> {},
      my_team_target |-> {<<0, 0>>},
      opponent_team_target |-> {<<GridW - 1, TallH - 1>>},
      opponents |-> os] :
        os \in {{}} \cup {{c} : c \in TallCells}}

TallInit ==
    /\ world \in TallWorlds
    /\ call \in [src : TallCells, dst : TallCells, extra : {{}, {<<2, 1>>}}]
    /\ ret = <<>>
    /\ pc = "pending"
    /\ player_defence_targets = << >>
    /\ actions = << >>
    /\ aim = << >>
    /\ chose = << >>
    /\ pool = << >>
    /\ before = << >>
    /\ PickStart
    /\ OutStart

TallRouteSpec == TallInit /\ [][RouteNext]_vars

\* ------------------------------------------------ claims, TallRouteSpec
\* the move cost of entering cell c on the weight map wm, times four
move_cost(wm, c) == 4 - wm[c]

\* the total move cost of a path: the cells entered, the first excluded
RECURSIVE PathCost(_, _)
PathCost(wm, p) ==
    IF Len(p) <= 1 THEN 0
    ELSE PathCost(wm, SubSeq(p, 1, Len(p) - 1)) + move_cost(wm, p[Len(p)])

\* more than any path without a repeated cell costs
Unreached(wm) == 4 * Cardinality(DOMAIN wm)

\* the pairs <<c, cost>> of every passable cell c with the cheapest cost of a
\* path of at most k steps over passable cells from src to c
RECURSIVE Cheapest(_, _, _)
Cheapest(wm, src, k) ==
    LET cells == {c \in DOMAIN wm : wm[c] # 0}
    IN IF k = 0 THEN {<<c, IF c = src THEN 0 ELSE Unreached(wm)>> : c \in cells}
       ELSE Let(Cheapest(wm, src, k - 1),
                LAMBDA D :
                  {<<e[1], SetMin({e[2]} \cup {n[2] + move_cost(wm, e[1]) :
                                      n \in {m \in D : Manhattan(m[1], e[1]) = 1}})>> :
                      e \in D})

\* the cheapest cost of a path from src to dst over passable cells
MinCost(wm, src, dst) ==
    Let(Cheapest(wm, src, Cardinality(DOMAIN wm)),
        LAMBDA D : (CHOOSE e \in D : e[1] = dst)[2])

\* C20: whenever improved_route returns a non-empty path from src to dst, that
\* path has the minimum total move cost (the sum of 1 - weight over the cells
\* entered) among all paths of 4-adjacent passable cells from src to dst on
\* the weight map of that call
C20_MinimumCost ==
    (pc = "done" /\ call.src # call.dst /\ ret # <<>>) =>
        Let(weights, LAMBDA wm : PathCost(wm, ret) = MinCost(wm, call.src, call.dst))

\* ---------------------------------------------------- claims, DefSpec (2)
\* the direct route of the call
initial_path == defence_route(world, call.player.pos, call.opponent.pos)

\* the opponent carries no flag, stands outside the defender's home half and
\* the direct route has three cells or more
InterceptCase ==
    /\ Len(initial_path) >= 3
    /\ ~call.opponent.hasFlag
    /\ ~is_in_my_territory(world, world.team, call.opponent.pos)

\* for own flag number i, the cell of the opponent's predicted route nearest
\* the mid-line; <<>> when the flag has no route
Crossing(i) ==
    LET flag_path == route_to(world, call.opponent.pos, world.my_flags[i], {})
    IN IF flag_path = <<>> THEN <<>>
       ELSE find_intersection_with_middle_line(world, flag_path)

\* the crossing cells that lie on the direct route, over all own flags, and
\* among them the first with the smallest Manhattan distance to the opponent
BestCrossing ==
    LET on_route == {i \in 1 .. Len(world.my_flags) :
                        Crossing(i) # <<>> /\ Crossing(i)[1] \in Range(initial_path)}
        dist(i) == Manhattan(Crossing(i)[1], call.opponent.pos)
    IN IF on_route = {} THEN <<>>
       ELSE Crossing(CHOOSE i \in on_route :
                        \A j \in on_route : dist(i) < dist(j) \/ (dist(i) = dist(j) /\ i <= j))

\* C21: when the direct route has length at least 3 and the opponent carries
\* no flag and is outside the defender's home half, the waypoint is chosen over
\* all of the defender's own flags: among the mid-line crossing cells of the
\* opponent's predicted routes that lie on the direct route, the one nearest
\* the opponent; no flag is left out of the comparison
C21_WaypointOverAllFlags ==
    (pc = "done" /\ InterceptCase) =>
        defence_target(world, call.player, call.opponent, initial_path).pos = BestCrossing

\* C22: whenever defence(player, opponent) returns "" (hold) for a unit D, for
\* any reason, player_defence_targets has no entry for D when the call returns
C22_HoldDropsTarget ==
    (pc = "done" /\ ret.dir = "") => call.player.name \notin DOMAIN player_defence_targets

\* -------------------------------------------------- claims, OutlineSpec (2)
\* an opponent's cell with its four orthogonal neighbours, and the same with
\* the four diagonal neighbours
Cross(o) ==
    {c \in (-1 .. Width) \X (-1 .. Height) : Manhattan(c, o.pos) <= 1}

Square(o) ==
    {c \in (-1 .. Width) \X (-1 .. Height) :
        Abs(c[1] - o.pos[1]) <= 1 /\ Abs(c[2] - o.pos[2]) <= 1}

\* the extra obstacles the claim names for unit p
ObstaclesFor(p) ==
    IF InMySide(world, p.pos) THEN {}
    ELSE UNION {IF p.hasFlag THEN Square(active(world.theirs)[k])
                ELSE Cross(active(world.theirs)[k]) :
                   k \in 1 .. Len(active(world.theirs))}

\* where generate_moves routes unit p: home for a carrier, else its target
\* cell, pulled back to the home column next to the mid-line for a defending
\* or distracting unit
DestOf(p) ==
    IF p.hasFlag THEN world.my_targets[1]
    ELSE LET dest == player_targets[p.name]
         IN IF player_states[p.name] \in {"absolute_defense", "distraction"}
               /\ ~InMySide(world, dest)
            THEN <<world.width \div 2 - (IF my_side_is_left(world) THEN 1 ELSE 0), dest[2]>>
            ELSE dest

\* the units generate_moves routes
routed ==
    SelectSeq(active(world.mine),
              LAMBDA p : p.hasFlag \/ (p.name \in DOMAIN player_states
                                       /\ p.name \in DOMAIN player_targets))

\* C23: in generate_moves the route of a unit whose current cell is in its
\* home half is computed with an empty extra-obstacle list, and the route of
\* a unit whose current cell is in the enemy half with every active
\* opponent's cell and its four orthogonal neighbours as extra obstacles, plus
\* the four diagonal neighbours when the unit carries a flag: the move emitted
\* is the first step of that route, and none is emitted when it has no step
C23_ObstaclesByHalf ==
    (pc = "planned" /\ world.my_targets # <<>>) =>
        \A i \in 1 .. Len(routed) :
            LET p == routed[i]
                path == route_to(world, p.pos, DestOf(p), ObstaclesFor(p))
            IN IF Len(path) > 1
               THEN /\ p.name \in DOMAIN actions
                    /\ actions[p.name] = get_direction(p.pos, path[2])
               ELSE p.name \notin DOMAIN actions

\* a tick in which a carrier in the enemy half gets no move because the
\* squares around the opponents cut its way home, which is open without
\* them, while a unit in its home half steps into an opponent's cross
C23_Witness ==
    /\ pc = "planned" /\ world.my_targets # <<>>
    /\ \E i \in 1 .. Len(routed) :
          /\ routed[i].hasFlag /\ ~InMySide(world, routed[i].pos)
          /\ Len(route_to(world, routed[i].pos, DestOf(routed[i]), {})) > 1
          /\ route_to(world, routed[i].pos, DestOf(routed[i]), ObstaclesFor(routed[i])) = <<>>
          /\ routed[i].name \notin DOMAIN actions
    /\ \E j \in 1 .. Len(routed), k \in 1 .. Len(active(world.theirs)) :
          /\ InMySide(world, routed[j].pos)
          /\ routed[j].name \in DOMAIN actions
          /\ Moved(routed[j].pos, actions[routed[j].name]) \in Cross(active(world.theirs)[k])

\* ------------------- improved_route of backend/pathfinding_adapter.py and
\* ------------------- violet_v0.5/server.py, and improved_route of server.py
INFLUENCE_RADIUS == 1

\* the breadth-first marking around one opponent: a cell taken from the queue
\* is added to the zone only while its distance is below the radius left, and
\* its neighbours that are in bounds, unvisited and no walls are queued one
\* step further out
RECURSIVE ZoneFrom(_, _, _, _)
ZoneFrom(w, frontier, visited_zone, radius) ==
    IF radius <= 0 \/ frontier = {} THEN {}
    ELSE LET next == {n \in Cells(w) :
                         /\ n \notin visited_zone
                         /\ n \notin w.walls
                         /\ \E c \in frontier : Manhattan(c, n) = 1}
         IN frontier \cup ZoneFrom(w, next, visited_zone \cup next, radius - 1)

enemy_influence_zone(w) ==
    UNION {ZoneFrom(w, {active(w.theirs)[k].pos}, {active(w.theirs)[k].pos}, INFLUENCE_RADIUS) :
              k \in {j \in 1 .. Len(active(w.theirs)) : InBounds(w, active(w.theirs)[j].pos)}}

\* improved_route(world, srcXY, dstXY, extra_obstacles) of the backend
\* adapter; the world has no attribute "obstacles"
bk_improved_route(w, srcXY, dstXY, extra) ==
    IF ~InBounds(w, srcXY) THEN <<>>
    ELSE IF ~InBounds(w, dstXY) THEN <<>>
    ELSE IF srcXY = dstXY THEN <<srcXY>>
    ELSE IF srcXY \in w.walls THEN <<>>
    ELSE IF srcXY \in enemy_influence_zone(w) THEN <<>>
    ELSE IF dstXY \in w.walls THEN <<>>
    ELSE IF dstXY \in enemy_influence_zone(w) THEN <<>>
    ELSE route_to(w, srcXY, dstXY, extra \cup enemy_influence_zone(w))

\* the snapshots handed to the two routers: team L, up to MaxWalls walls, one
\* opponent that is active on a cell without a wall or sits in prison
ZoneWorlds ==
    {[DefWorld("L", ws) EXCEPT !.theirs = <<o>>] :
        ws \in WallSets,
        o \in {Player("X0", 0, c, FALSE, FALSE) : c \in AllCells \ DefWallCells}
              \cup {Player("X0", 0, <<Width - 1, 0>>, FALSE, TRUE)}}

ZoneInit ==
    /\ world \in ZoneWorlds
    /\ call \in [src : AllCells, dst : AllCells, extra : ExtraSets]
    /\ ret = <<>>
    /\ pc = "pending"
    /\ player_defence_targets = << >>
    /\ actions = << >>
    /\ aim = << >>
    /\ chose = << >>
    /\ pool = << >>
    /\ before = << >>
    /\ PickStart
    /\ OutStart

\* one call of each improved_route with the same arguments
ZoneRoute ==
    /\ pc = "pending"
    /\ ret' = [backend |-> bk_improved_route(world, call.src, call.dst, call.extra),
               server |-> srv_improved_route(world, call.src, call.dst)]
    /\ pc' = "done"
    /\ UNCHANGED <<world, call, player_defence_targets, actions, aim, chose, pool, before,
                   pickVars, outVars, turn>>

ZoneNext == ZoneRoute

ZoneSpec == ZoneInit /\ [][ZoneNext]_vars

\* ------------------------------------------------------- claims, ZoneSpec
\* the cells occupied by or 4-adjacent to an active opponent
InfluenceCells == UNION {Cross(active(world.theirs)[k]) : k \in 1 .. Len(active(world.theirs))}

\* C24: improved_route of backend/pathfinding_adapter.py (and of
\* violet_v0.5/server.py) treats the cell of every active opponent and its
\* up/down/left/right neighbours as impassable: it returns [] when src or
\* dst is in that zone, and no path it returns contains a cell occupied by
\* or 4-adjacent to an active opponent
C24_InfluenceZoneImpassable ==
    pc = "done" =>
        /\ (call.src \in InfluenceCells \/ call.dst \in InfluenceCells) => ret.backend = <<>>
        /\ Range(ret.backend) \cap InfluenceCells = {}

\* C25: improved_route(src, dst) of server.py returns the path world.route_to
\* finds with the extra obstacles and the influence zone excluded: it is
\* non-empty whenever src and dst are distinct in-bounds cells, no walls, not
\* in the influence zone, and connected by cells that avoid walls, extra
\* obstacles and the influence zone
C25_ReturnsRouteToPath ==
    LET excluded == call.extra \cup enemy_influence_zone(world)
        path == route_to(world, call.src, call.dst, excluded)
    IN (/\ pc = "done"
        /\ call.src # call.dst
        /\ call.src \notin world.walls \cup enemy_influence_zone(world)
        /\ call.dst \notin world.walls \cup enemy_influence_zone(world)
        /\ path # <<>>) =>
            /\ ret.server = path
            /\ ret.server # <<>>

\* ------------------------------------------------- claims, SrvSpec (3)
Directions == {"up", "down", "left", "right"}

\* some enemy flag to which world.route_to finds a route with a step to take
FlagReachable(p) ==
    \E k \in 1 .. Len(world.enemy_flags) :
        Len(route_to(world, p.pos, world.enemy_flags[k], {})) > 1

\* C26: the mapping plan_next_actions returns has an entry for every free
\* unit (not captured, not carrying a flag) of the tick, each value is one of
\* up, down, left, right or "", and the value is "" exactly when no role
\* (defence, scoring, override, rescue) produced a direction and no enemy
\* flag is reachable by world.route_to
C26_EveryFreeUnitAnswered ==
    pc = "planned" =>
        \A i \in 1 .. Len(free_players) :
            LET p == free_players[i]
            IN /\ p.name \in DOMAIN actions
               /\ actions[p.name] \in Directions \cup {""}
               /\ actions[p.name] = "" <=> (p.name \notin DOMAIN aim /\ ~FlagReachable(p))

\* a tick in which one free unit holds, with no role target and no flag to
\* reach, while another one is given a direction
C26_Witness ==
    /\ pc = "planned"
    /\ \E i, j \in 1 .. Len(free_players) :
          LET p == free_players[i]
              q == free_players[j]
          IN /\ p.name \in DOMAIN actions /\ actions[p.name] = ""
             /\ p.name \notin DOMAIN aim /\ ~FlagReachable(p)
             /\ q.name \in DOMAIN actions /\ actions[q.name] \in Directions
             /\ q.name \in DOMAIN aim

\* ----------------------------------------- the chase, defence() of server.py
\* the defender's cell after the engine applied direction d: a step into a
\* wall or off the map is not made
Applied(w, c, d) ==
    IF InBounds(w, Moved(c, d)) /\ Moved(c, d) \notin w.walls THEN Moved(c, d) ELSE c

Caught == call.player.pos = call.opponent.pos

\* the chases that start inside one half of the map: defender and opponent
\* on the same side of the mid-line. The snapshot and the opponent stay as
\* they are during a chase, so what defence(player, opponent) returns depends
\* on the defender's cell alone: ret holds it for every cell
ChaseInit ==
    /\ \E t \in {"L", "R"}, ws \in WallSets :
          \E fs \in DefFlagSets(t) : world = [DefWorld(t, ws) EXCEPT !.my_flags = fs]
    /\ \E a, b \in AllCells \ world.walls, f \in BOOLEAN :
          /\ is_on_left(world, a) = is_on_left(world, b)
          /\ call = [player |-> Player(world.team \o "0", 0, a, FALSE, FALSE),
                     opponent |-> Player((IF world.team = "L" THEN "R" ELSE "L") \o "0",
                                         0, b, f, FALSE)]
    /\ ret = [c \in AllCells \ world.walls |->
                 defence(world, [call.player EXCEPT !.pos = c], call.opponent)]
    /\ pc = "pending"
    /\ player_defence_targets = (call.player.name :> call.opponent.name)
    /\ actions = << >>
    /\ aim = << >>
    /\ chose = << >>
    /\ pool = << >>
    /\ before = << >>
    /\ PickStart
    /\ OutStart

\* one tick of the chase: defence(player, opponent) is called on the snapshot
\* and the defender makes the step returned; the opponent stays on its cell
Chase ==
    /\ pc = "pending"
    /\ ~Caught
    /\ player_defence_targets' =
          IF ret[call.player.pos].drop THEN Del(player_defence_targets, call.player.name)
          ELSE player_defence_targets
    /\ pc' = IF ret[call.player.pos].raises THEN "raised" ELSE "pending"
    /\ call' = IF ret[call.player.pos].raises THEN call
               ELSE [call EXCEPT !.player.pos = Applied(world, @, ret[call.player.pos].dir)]
    /\ UNCHANGED <<world, ret, actions, aim, chose, pool, before, pickVars, outVars, turn>>

ChaseNext == Chase

\* plan_next_actions runs on every request of the game server, so the tick
\* is taken as long as it can be
ChaseSpec == ChaseInit /\ [][ChaseNext]_vars /\ WF_vars(Chase)

\* the cells of the defender's home half by both predicates of server.py
HomeCells ==
    {c \in Cells(world) : InMySide(world, c) /\ is_in_my_territory(world, world.team, c)}

\* the opponent stands in the defender's home half and a route from the
\* defender to it stays inside the home half
ChaseCase ==
    /\ pc = "pending"
    /\ call.opponent.pos \in HomeCells
    /\ call.player.pos \in HomeCells
    /\ route_to(world, call.player.pos, call.opponent.pos, Cells(world) \ HomeCells) # <<>>

\* C27: if an opponent stays on one cell inside the defender's home half and
\* a route to it exists that stays inside the home half, then calling
\* defence(player, opponent) on every tick and applying the returned direction
\* brings the defender onto the opponent's cell after finitely many ticks,
\* whether or not the opponent carries a flag
C27_DefenderConverges == ChaseCase ~> Caught

\* -------------------------------- the territory predicates of server.py
\* the predicates are asked about any cell of the snapshot of either team
TerrInit ==
    /\ \E t \in {"L", "R"}, ws \in WallSets : world = DefWorld(t, ws)
    /\ call \in [pos : AllCells]
    /\ ret = <<>>
    /\ pc = "pending"
    /\ player_defence_targets = << >>
    /\ actions = << >>
    /\ aim = << >>
    /\ chose = << >>
    /\ pool = << >>
    /\ before = << >>
    /\ PickStart
    /\ OutStart

\* is_in_my_territory and is_in_enemy_territory for a player of each team,
\* and the home test of defence_route for the snapshot's own team
Judge ==
    /\ pc = "pending"
    /\ ret' = [mine |-> [t \in {"L", "R"} |-> is_in_my_territory(world, t, call.pos)],
               enemy |-> [t \in {"L", "R"} |-> is_in_enemy_territory(world, t, call.pos)],
               route_home |-> InMySide(world, call.pos)]
    /\ pc' = "done"
    /\ UNCHANGED <<world, call, player_defence_targets, actions, aim, chose, pool, before,
                   pickVars, outVars, turn>>

TerrNext == Judge

TerrSpec == TerrInit /\ [][TerrNext]_vars

\* C28: the territory predicates partition the grid consistently: for every
\* in-bounds cell exactly one of team L and team R has the cell in its home
\* half (is_in_my_territory is true for one team and is_in_enemy_territory
\* for the other), and this agrees with the left/right split world.is_on_left
\* by which defence_route decides which cells are home cells
C28_TerritoryPartition ==
    pc = "done" =>
        /\ ret.mine["L"] # ret.mine["R"]
        /\ ret.mine["L"] = ret.enemy["R"]
        /\ ret.mine["R"] = ret.enemy["L"]
        /\ ret.mine[world.team] = ret.route_home

\* ------------------------------------------------- claims, DefSpec (3)
\* C29: defence(player, opponent) never raises: for every snapshot, also one
\* in which the defender's team has no flags left in list_flags(mine=True)
\* while the opponent carries no flag and is outside the home half with a
\* direct route of at least three cells, the call returns a direction or ""
C29_DefenceNeverRaises ==
    pc # "pending" =>
        /\ pc = "done"
        /\ ~ret.raises
        /\ ret.dir \in Directions \cup {""}

\* --------------------- SimpleGameSimulator, backend/training/train_direct.py
\* SimpleGameSimulator(width, height, num_players = 2, num_flags = 2) without
\* obstacles
SimW == 10
SimH == 6

\* the number of apply_action calls followed after reset
SimMaxCalls == 3

\* the fixed delivery region of a team: three columns, three rows around the
\* middle row
sim_targets(team) ==
    {c \in (0 .. SimW - 1) \X (0 .. SimH - 1) :
        /\ c[2] >= SimH \div 2 - 1 /\ c[2] < SimH \div 2 + 2
        /\ IF team = "L" THEN c[1] >= 2 /\ c[1] < 5
           ELSE c[1] >= SimW - 5 /\ c[1] < SimW - 2}

SimPlayer(name, team, pos) ==
    [name |-> name, team |-> team, pos |-> pos, hasFlag |-> FALSE, inPrison |-> FALSE]

SimFlag(pos) == [pos |-> pos, canPickup |-> TRUE]

\* some of the layouts reset() draws: players and flags of L in the columns
\* left of the mid-line, those of R right of it, outside the delivery and
\* prison regions; nobody carries a flag or is in prison, 0 : 0
SimStarts ==
    {[players |-> <<SimPlayer("L0", "L", <<SimW \div 2 - 1, 1>>), SimPlayer("L1", "L", l1),
                    SimPlayer("R0", "R", r0), SimPlayer("R1", "R", <<SimW \div 2 + 1, 1>>)>>,
      l_flags |-> <<SimFlag(<<SimW \div 2 - 2, 1>>), SimFlag(<<SimW \div 2 - 1, 1>>)>>,
      r_flags |-> <<SimFlag(<<SimW \div 2, 1>>), SimFlag(f)>>,
      l_score |-> 0, r_score |-> 0] :
        l1 \in {<<SimW \div 2 - 2, 1>>, <<1, 2>>},
        r0 \in {<<SimW \div 2, 1>>, <<SimW - 2, 2>>},
        f \in {<<SimW \div 2 + 1, 1>>, <<SimW - 2, 1>>}}

\* every flag of the list can be picked up again
sim_reset_flags(flags) == [i \in DOMAIN flags |-> [flags[i] EXCEPT !.canPickup = TRUE]]

\* apply_action(player_name, direction) on simulator state s
apply_action(s, player_name, direction) ==
    LET k == FirstIdx(s.players, LAMBDA p : p.name = player_name)
    IN IF k > Len(s.players) \/ s.players[k].inPrison THEN s
       ELSE
         LET player == s.players[k]
             team == player.team
             new == Moved(player.pos, direction)
             pos == IF /\ new[1] >= 0 /\ new[1] < SimW
                       /\ new[2] >= 0 /\ new[2] < SimH
                    THEN new ELSE player.pos
             enemy_flags == IF team = "L" THEN s.r_flags ELSE s.l_flags
             \* pick-up
             taken == IF player.hasFlag THEN Len(enemy_flags) + 1
                      ELSE FirstIdx(enemy_flags, LAMBDA f : f.canPickup /\ f.pos = pos)
             picked == taken <= Len(enemy_flags)
             flags1 == IF picked THEN [enemy_flags EXCEPT ![taken].canPickup = FALSE]
                       ELSE enemy_flags
             hasFlag1 == player.hasFlag \/ picked
             \* delivery
             delivered == hasFlag1 /\ pos \in sim_targets(team)
             flags2 == IF delivered THEN sim_reset_flags(flags1) ELSE flags1
             hasFlag2 == hasFlag1 /\ ~delivered
             \* collision with the first free opponent on the cell
             is_collision_on_left == 2 * pos[1] < SimW
             hit == FirstIdx(s.players, LAMBDA o : /\ o.team # team
                                                  /\ ~o.inPrison
                                                  /\ o.pos = pos)
             collided == hit <= Len(s.players)
             at_home == IF team = "L" THEN is_collision_on_left ELSE ~is_collision_on_left
             lost == collided /\ (IF at_home THEN s.players[hit].hasFlag ELSE hasFlag2)
             flags3 == IF lost THEN sim_reset_flags(flags2) ELSE flags2
             moved == [player EXCEPT !.pos = pos,
                                     !.hasFlag = hasFlag2 /\ ~(collided /\ ~at_home),
                                     !.inPrison = collided /\ ~at_home]
             players1 == [s.players EXCEPT ![k] = moved]
             players2 == IF collided /\ at_home
                         THEN [players1 EXCEPT ![hit].inPrison = TRUE, ![hit].hasFlag = FALSE]
                         ELSE players1
         IN [players |-> players2,
             l_flags |-> IF team = "L" THEN s.l_flags ELSE flags3,
             r_flags |-> IF team = "L" THEN flags3 ELSE s.r_flags,
             l_score |-> s.l_score + (IF delivered /\ team = "L" THEN 1 ELSE 0),
             r_score |-> s.r_score + (IF delivered /\ team = "R" THEN 1 ELSE 0)]

\* the simulator after __init__, which ends with reset()
SimInit ==
    /\ world \in SimStarts
    /\ call = NoCall
    /\ ret = <<>>
    /\ pc = "reset"
    /\ player_defence_targets = << >>
    /\ actions = << >>
    /\ aim = << >>
    /\ chose = << >>
    /\ pool = << >>
    /\ before = << >>
    /\ PickStart
    /\ OutStart

\* one call apply_action(player_name, direction), for any player and any
\* direction string
ApplyAction ==
    /\ turn < SimMaxCalls
    /\ \E n \in {"L0", "L1", "R0", "R1"}, d \in {"up", "down", "left", "right", ""} :
          world' = apply_action(world, n, d)
    /\ turn' = turn + 1
    /\ pc' = "applied"
    /\ UNCHANGED <<call, ret, player_defence_targets, actions, aim, chose, pool, before,
                   pickVars, player_states, player_targets, player_assigned_flags,
                   player_tracking_opponents>>

SimNext == ApplyAction

SimSpec == SimInit /\ [][SimNext]_vars

\* the players of team t that carry a flag, the flags of team t that are
\* taken
Carriers(t) == {i \in 1 .. Len(world.players) :
                   world.players[i].team = t /\ world.players[i].hasFlag}

TakenFlags(flags) == {i \in 1 .. Len(flags) : ~flags[i].canPickup}

\* C30: after any sequence of apply_action calls from reset, for each team
\* the number of its players with hasFlag = true equals the number of the
\* opposing team's flags with canPickup = false, and no player has both
\* inPrison = true and hasFlag = true
C30_FlagsMatchCarriers ==
    /\ Cardinality(Carriers("L")) = Cardinality(TakenFlags(world.r_flags))
    /\ Cardinality(Carriers("R")) = Cardinality(TakenFlags(world.l_flags))
    /\ \A i \in 1 .. Len(world.players) :
          ~(world.players[i].inPrison /\ world.players[i].hasFlag)

====
